---- MODULE Spec2Model ----
(***************************************************************************)
(* Model of the employment-contract extractor: src/pdf_contracts.py (text  *)
(* repair, value sanitizers, field extraction, quality score),             *)
(* src/ai_assist.py (fallback filler and merge) and src/app.py (batch      *)
(* driver).                                                                *)
(*                                                                         *)
(* A Python str is modelled as a sequence of Unicode code points, so that  *)
(* slicing, reversal ([::-1]), character classes and regular expressions   *)
(* are computed as the code computes them.                                 *)
(***************************************************************************)
EXTENDS Integers, Sequences, FiniteSets, TLC

VARIABLES
    pc,          \* position of the running call: "ready" | "attempt" | "loop" | "done"
    inp,         \* the arguments of the call
    out,         \* the value it returned
    passes,      \* how many times the normalizer has been applied to the text
    attempt,     \* ai_fill_missing_fields: the loop variable of the retry loop
    posts,       \* ai_fill_missing_fields: requests sent to the service
    slept,       \* ai_fill_missing_fields: time slept, in tenths of a second
    last_err,    \* ai_fill_missing_fields: the text of the last exception
    files,       \* process_files: the uploaded files
    idx,         \* process_files: files handled so far (the loop's i)
    rows,        \* process_files: the records
    logs,        \* process_files: the log entries
    debug_items  \* process_files: the debug previews

aiVars == <<attempt, posts, slept, last_err>>
batchVars == <<files, idx, rows, logs, debug_items>>
vars == <<pc, inp, out, passes, attempt, posts, slept, last_err,
          files, idx, rows, logs, debug_items>>

\* x = v, then F(x): a local variable assigned once and read several times
Let(v, F(_)) == F(v)

\* the retry loop of ai_fill_missing_fields has not been entered
AIIdle == attempt = 0 /\ posts = 0 /\ slept = 0 /\ last_err = ""

\* process_files has not been called
BatchIdle ==
    files = <<>> /\ idx = 0 /\ rows = <<>> /\ logs = <<>> /\ debug_items = <<>>

(***************************************************************************)
(* Characters                                                              *)
(***************************************************************************)

\* str.isspace() / regex \s on str patterns
IsSpace(c) ==
    c \in {9, 10, 11, 12, 13, 28, 29, 30, 31, 32, 133, 160, 5760, 8232, 8233,
           8239, 8287, 12288} \/ c \in 8192..8202

\* the line boundaries of str.splitlines()
IsLineBreak(c) == c \in {10, 11, 12, 13, 28, 29, 30, 133, 8232, 8233}

\* the zero of every run of ten decimal digits (Unicode category Nd): ASCII,
\* Arabic-Indic, extended Arabic-Indic, NKo, Devanagari, ..., fullwidth, ...
DIGIT_ZEROS ==
    {48, 1632, 1776, 1984, 2406, 2534, 2662, 2790, 2918, 3046, 3174, 3302,
     3430, 3558, 3664, 3792, 3872, 4160, 4240, 6112, 6160, 6470, 6608, 6784,
     6800, 6992, 7088, 7232, 7248, 42528, 43216, 43264, 43472, 43504, 43600,
     44016, 65296, 66720, 68912, 69734, 69872, 69942, 70096, 70384, 70736,
     70864, 71248, 71360, 71472, 71904, 72016, 72784, 73040, 73120, 92768,
     92864, 93008, 120782, 120792, 120802, 120812, 120822, 123200, 123632,
     125264, 130032}

\* regex \d on str patterns: every Unicode decimal digit
IsDigit(c) == \E z \in DIGIT_ZEROS : z <= c /\ c <= z + 9

\* int() of one decimal digit
DigitValue(c) == c - (CHOOSE z \in DIGIT_ZEROS : z <= c /\ c <= z + 9)

\* [0-9]
IsAsciiDigit(c) == c \in 48..57

\* [A-Za-z]
IsLatin(c) == c \in 65..90 \/ c \in 97..122

\* AR_RE = [؀-ۿ]
AR_RE(c) == c \in 1536..1791

\* LAT_RE = [A-Za-z@]
LAT_RE(c) == IsLatin(c) \/ c = 64

(***************************************************************************)
(* str operations                                                          *)
(***************************************************************************)

\* s[::-1]
Reverse(s) == [i \in 1..Len(s) |-> s[Len(s) + 1 - i]]

\* str.strip()
Strip(s) ==
    LET RECURSIVE LStrip(_)
        LStrip(t) == IF t # <<>> /\ IsSpace(Head(t)) THEN LStrip(Tail(t)) ELSE t
        RECURSIVE RStrip(_)
        RStrip(t) ==
            IF t # <<>> /\ IsSpace(t[Len(t)]) THEN RStrip(SubSeq(t, 1, Len(t) - 1))
            ELSE t
    IN  RStrip(LStrip(s))

\* s[pos:].startswith(p), positions counted from 1
StartsWithAt(s, p, pos) ==
    /\ pos + Len(p) - 1 <= Len(s)
    /\ \A i \in 1..Len(p) : s[pos + i - 1] = p[i]

\* s.startswith(p)
StartsWith(s, p) == StartsWithAt(s, p, 1)

\* c in s
Contains(s, c) == \E i \in 1..Len(s) : s[i] = c

\* the number of characters of s that satisfy a class
Count(s, P(_)) == Cardinality({i \in 1..Len(s) : P(s[i])})

\* s.replace(chr(c), "")
RemoveChar(s, c) == SelectSeq(s, LAMBDA x : x # c)

RECURSIVE ToInt(_)
\* int(s) for a non-empty string of decimal digits
ToInt(s) ==
    IF s = <<>> THEN 0
    ELSE 10 * ToInt(SubSeq(s, 1, Len(s) - 1)) + DigitValue(s[Len(s)])

RECURSIVE Decimal(_)
\* str(n) for n >= 0
Decimal(n) ==
    IF n < 10 THEN <<48 + n>> ELSE Decimal(n \div 10) \o <<48 + (n % 10)>>

RECURSIVE ZeroPad(_, _)
\* format(n, "0<w>d") for n >= 0
ZeroPad(n, w) ==
    LET d == Decimal(n)
    IN  IF Len(d) >= w THEN d ELSE <<48>> \o ZeroPad(n, w - 1)

(***************************************************************************)
(* Regular expressions (Python re, str patterns).  A pattern is a tree of   *)
(* nodes; Match is re's backtracking matcher: alternatives are tried in    *)
(* order, a greedy repeat tries one more iteration before stopping, a lazy *)
(* repeat tries stopping first, and the first success is the match.        *)
(***************************************************************************)

\* a literal string
Lit(s) == [t |-> "lit", s |-> s]

\* a character set [...]: single characters, ranges lo-hi, the categories
\* \d ("d") and \s ("s"), negated or not
Cls(neg, chars, ranges, cats) ==
    [t |-> "cls", neg |-> neg, chars |-> chars, ranges |-> ranges, cats |-> cats]

\* . (without DOTALL) and [^\n]
Dot == Cls(TRUE, {10}, {}, {})

\* \d
ClsD == Cls(FALSE, {}, {}, {"d"})

\* \s
ClsS == Cls(FALSE, {}, {}, {"s"})

\* [0-9]
Cls09 == Cls(FALSE, {}, {<<48, 57>>}, {})

\* [-/]
ClsSep == Cls(FALSE, {45, 47}, {}, {})

\* r1 r2 ... rn
Cat(xs) == [t |-> "cat", xs |-> xs]

\* r1 | r2 | ... | rn
Alt(xs) == [t |-> "alt", xs |-> xs]

\* r{lo,hi}; hi = -1 is no upper limit; greedy or lazy (r{lo,hi}?)
Rep(r, lo, hi, greedy) ==
    [t |-> "rep", r |-> r, lo |-> lo, hi |-> hi, greedy |-> greedy]

\* r*
Star(r) == Rep(r, 0, -1, TRUE)

\* r+
Plus(r) == Rep(r, 1, -1, TRUE)

\* r?
Opt(r) == Rep(r, 0, 1, TRUE)

\* r*?
LazyStar(r) == Rep(r, 0, -1, FALSE)

\* the capturing group number k
Grp(k, r) == [t |-> "grp", k |-> k, r |-> r]

InClass(cl, c) ==
    LET hit == \/ c \in cl.chars
               \/ \E r \in cl.ranges : r[1] <= c /\ c <= r[2]
               \/ "d" \in cl.cats /\ IsDigit(c)
               \/ "s" \in cl.cats /\ IsSpace(c)
    IN  IF cl.neg THEN ~hit ELSE hit

\* no group has taken part yet
NoCaps == [k \in 1..3 |-> <<0, 0>>]

\* re.search found nothing (None)
NoMatch == [ok |-> FALSE, start |-> 0, end |-> 0, caps |-> NoCaps]

\* how many characters from position pos on are in the class cl, at most hi of
\* them when hi >= 0
RunLength(txt, pos, cl, hi) ==
    LET avail == Len(txt) - pos + 1
        limit == IF hi >= 0 /\ hi < avail THEN hi ELSE avail
    IN  CHOOSE n \in 0..limit :
            /\ \A i \in 0..(n - 1) : InClass(cl, txt[pos + i])
            /\ n = limit \/ ~InClass(cl, txt[pos + n])

\* of the attempts <<n, result>>, the successful one with the largest n
\* (greedy) or the smallest n (lazy); <<0, NoMatch>> if none succeeded
Best(tries, greedy) ==
    LET oks == {x \in tries : x[2].ok}
    IN  IF oks = {} THEN <<0, NoMatch>>
        ELSE CHOOSE x \in oks : \A y \in oks :
                 IF greedy THEN y[1] <= x[1] ELSE x[1] <= y[1]

RECURSIVE Match(_, _, _, _)
\* match the node list `nodes` (what is left of the pattern) at position pos
Match(nodes, txt, pos, caps) ==
    IF nodes = <<>>
    THEN [ok |-> TRUE, start |-> 0, end |-> pos, caps |-> caps]
    ELSE
    LET h == Head(nodes)
        rest == Tail(nodes)
    IN  CASE h.t = "lit" ->
                IF StartsWithAt(txt, h.s, pos)
                THEN Match(rest, txt, pos + Len(h.s), caps)
                ELSE NoMatch
          [] h.t = "cls" ->
                IF pos <= Len(txt) /\ InClass(h, txt[pos])
                THEN Match(rest, txt, pos + 1, caps)
                ELSE NoMatch
          [] h.t = "cat" -> Match(h.xs \o rest, txt, pos, caps)
          [] h.t = "alt" ->
                IF h.xs = <<>> THEN NoMatch
                ELSE LET first == Match(<<Head(h.xs)>> \o rest, txt, pos, caps)
                     IN  IF first.ok THEN first
                         ELSE Match(<<Alt(Tail(h.xs))>> \o rest, txt, pos, caps)
          [] h.t = "rep" /\ h.r.t = "cls" ->
                \* a repeated character set: the rest of the pattern is tried
                \* after every possible number of repetitions; a greedy repeat
                \* keeps the largest number that succeeds, a lazy one the
                \* smallest
                Best({<<c, Match(rest, txt, pos + c, caps)>> :
                            c \in h.lo..RunLength(txt, pos, h.r, h.hi)},
                     h.greedy)[2]
          [] h.t = "rep" /\ h.r.t # "cls" ->
                LET less == Rep(h.r, IF h.lo > 0 THEN h.lo - 1 ELSE 0,
                                IF h.hi > 0 THEN h.hi - 1 ELSE h.hi, h.greedy)
                    more == Match(<<h.r, less>> \o rest, txt, pos, caps)
                    stop == Match(rest, txt, pos, caps)
                IN  IF h.hi = 0 THEN stop
                    ELSE IF h.lo > 0 THEN more
                    ELSE IF h.greedy
                         THEN (IF more.ok THEN more ELSE stop)
                         ELSE (IF stop.ok THEN stop ELSE more)
          [] h.t = "grp" ->
                Match(<<h.r, [t |-> "close", k |-> h.k, from |-> pos]>> \o rest,
                      txt, pos, caps)
          [] h.t = "close" ->
                Match(rest, txt, pos, [caps EXCEPT ![h.k] = <<h.from, pos>>])

\* pattern.search(txt, i - 1): the leftmost match starting at position i or later
SearchFrom(re, txt, i) ==
    Let(Best({<<j, Match(<<re>>, txt, j, NoCaps)>> : j \in i..(Len(txt) + 1)}, FALSE),
        LAMBDA first : [first[2] EXCEPT !.start = first[1]])

\* re.search(re, txt)
Search(re, txt) == SearchFrom(re, txt, 1)

\* m.group(k)
Group(m, txt, k) == SubSeq(txt, m.caps[k][1], m.caps[k][2] - 1)

RECURSIVE FindAllFrom(_, _, _)
\* re.findall for a pattern that never matches the empty string: the
\* non-overlapping matches (m.group(0)), left to right
FindAllFrom(re, txt, i) ==
    Let(SearchFrom(re, txt, i), LAMBDA m :
        IF ~m.ok THEN <<>>
        ELSE <<SubSeq(txt, m.start, m.end - 1)>> \o FindAllFrom(re, txt, m.end))

FindAll(re, txt) == FindAllFrom(re, txt, 1)

RECURSIVE Flatten(_)
\* "".join(parts)
Flatten(parts) ==
    IF parts = <<>> THEN <<>> ELSE Head(parts) \o Flatten(Tail(parts))

(***************************************************************************)
(* Value sanitizers (src/pdf_contracts.py)                                 *)
(***************************************************************************)

\* digits_only: "".join(re.findall(r"\d+", s))
digits_only(s) == SelectSeq(s, IsDigit)

\* r"(\d{1,4})[-/](\d{1,2})[-/](\d{1,4})"
DATE_RE ==
    Cat(<<Grp(1, Rep(ClsD, 1, 4, TRUE)), ClsSep, Grp(2, Rep(ClsD, 1, 2, TRUE)),
          ClsSep, Grp(3, Rep(ClsD, 1, 4, TRUE))>>)

\* format_date_any from "a, b, c = m.group(1), m.group(2), m.group(3)" on
DateOfParts(a, b, c0) ==
    LET \* a year that seems reversed (3202 / 5202 / 6202)
        c == IF Len(c0) = 4 /\ ToInt(c0) > 2100 THEN Reverse(c0) ELSE c0
        yearFirst == Len(a) = 4
        month == ToInt(b)
        day == IF yearFirst THEN ToInt(c) ELSE ToInt(a)
        y == IF yearFirst THEN ToInt(a) ELSE ToInt(c)
        year == IF ~yearFirst /\ y < 100 THEN y + 2000 ELSE y
    IN  IF ~(1 <= month /\ month <= 12 /\ 1 <= day /\ day <= 31) THEN <<>>
        ELSE ZeroPad(day, 2) \o <<47>> \o ZeroPad(month, 2) \o <<47>>
                 \o ZeroPad(year, 4)

format_date_any(s0) ==
    IF s0 = <<>> THEN <<>>
    ELSE Let(Strip(s0), LAMBDA s :
         Let(Search(DATE_RE, s), LAMBDA m :
             IF ~m.ok THEN <<>>
             ELSE DateOfParts(Group(m, s, 1), Group(m, s, 2), Group(m, s, 3))))

\* r"\d+"
DIGITS_RE == Plus(ClsD)

\* ar_count: len(AR_RE.findall(s))
ar_count(s) == Count(s, AR_RE)

\* lat_count: len(LAT_RE.findall(s))
lat_count(s) == Count(s, LAT_RE)

\* dig_count: len(re.findall(r"\d", s))
dig_count(s) == Count(s, IsDigit)

\* unicodedata.normalize("NFKC", s): compatibility decomposition, canonical
\* ordering, canonical composition.  The tables of unicodedata (Unicode 14.0.0)
\* are written as searches on the code point.
NFKC(s) ==
    LET \* normalize("NFKD", chr(c)) for the code points that are not their own
        \* compatibility decomposition, the Hangul syllables left out
        Decomposition(c) ==
            IF c < 64367 THEN IF c < 12035 THEN IF c < 7813 THEN IF c < 1118
            THEN IF c < 416 THEN IF c < 281 THEN IF c < 229 THEN IF c < 201
            THEN IF c < 188 THEN IF c < 179 THEN IF c < 170 THEN IF c = 160
            THEN <<32>> ELSE IF c = 168 THEN <<32,776>> ELSE <<c>> ELSE IF c =
            170 THEN <<97>> ELSE IF c = 175 THEN <<32,772>> ELSE IF c = 178
            THEN <<50>> ELSE <<c>> ELSE IF c < 184 THEN IF c = 179 THEN <<51>>
            ELSE IF c = 180 THEN <<32,769>> ELSE IF c = 181 THEN <<956>> ELSE
            <<c>> ELSE IF c = 184 THEN <<32,807>> ELSE IF c = 185 THEN <<49>>
            ELSE IF c = 186 THEN <<111>> ELSE <<c>> ELSE IF c < 194 THEN IF c
            < 190 THEN IF c = 188 THEN <<49,8260,52>> ELSE IF c = 189 THEN
            <<49,8260,50>> ELSE <<c>> ELSE IF c = 190 THEN <<51,8260,52>> ELSE
            IF c = 192 THEN <<65,768>> ELSE IF c = 193 THEN <<65,769>> ELSE
            <<c>> ELSE IF c < 197 THEN IF c = 194 THEN <<65,770>> ELSE IF c =
            195 THEN <<65,771>> ELSE IF c = 196 THEN <<65,776>> ELSE <<c>>
            ELSE IF c = 197 THEN <<65,778>> ELSE IF c = 199 THEN <<67,807>>
            ELSE IF c = 200 THEN <<69,768>> ELSE <<c>> ELSE IF c < 213 THEN IF
            c < 206 THEN IF c < 203 THEN IF c = 201 THEN <<69,769>> ELSE IF c
            = 202 THEN <<69,770>> ELSE <<c>> ELSE IF c = 203 THEN <<69,776>>
            ELSE IF c = 204 THEN <<73,768>> ELSE IF c = 205 THEN <<73,769>>
            ELSE <<c>> ELSE IF c < 210 THEN IF c = 206 THEN <<73,770>> ELSE IF
            c = 207 THEN <<73,776>> ELSE IF c = 209 THEN <<78,771>> ELSE <<c>>
            ELSE IF c = 210 THEN <<79,768>> ELSE IF c = 211 THEN <<79,769>>
            ELSE IF c = 212 THEN <<79,770>> ELSE <<c>> ELSE IF c < 221 THEN IF
            c < 218 THEN IF c = 213 THEN <<79,771>> ELSE IF c = 214 THEN
            <<79,776>> ELSE IF c = 217 THEN <<85,768>> ELSE <<c>> ELSE IF c =
            218 THEN <<85,769>> ELSE IF c = 219 THEN <<85,770>> ELSE IF c =
            220 THEN <<85,776>> ELSE <<c>> ELSE IF c < 226 THEN IF c = 221
            THEN <<89,769>> ELSE IF c = 224 THEN <<97,768>> ELSE IF c = 225
            THEN <<97,769>> ELSE <<c>> ELSE IF c = 226 THEN <<97,770>> ELSE IF
            c = 227 THEN <<97,771>> ELSE IF c = 228 THEN <<97,776>> ELSE <<c>>
            ELSE IF c < 256 THEN IF c < 242 THEN IF c < 235 THEN IF c < 232
            THEN IF c = 229 THEN <<97,778>> ELSE IF c = 231 THEN <<99,807>>
            ELSE <<c>> ELSE IF c = 232 THEN <<101,768>> ELSE IF c = 233 THEN
            <<101,769>> ELSE IF c = 234 THEN <<101,770>> ELSE <<c>> ELSE IF c
            < 238 THEN IF c = 235 THEN <<101,776>> ELSE IF c = 236 THEN
            <<105,768>> ELSE IF c = 237 THEN <<105,769>> ELSE <<c>> ELSE IF c
            = 238 THEN <<105,770>> ELSE IF c = 239 THEN <<105,776>> ELSE IF c
            = 241 THEN <<110,771>> ELSE <<c>> ELSE IF c < 249 THEN IF c < 244
            THEN IF c = 242 THEN <<111,768>> ELSE IF c = 243 THEN <<111,769>>
            ELSE <<c>> ELSE IF c = 244 THEN <<111,770>> ELSE IF c = 245 THEN
            <<111,771>> ELSE IF c = 246 THEN <<111,776>> ELSE <<c>> ELSE IF c
            < 252 THEN IF c = 249 THEN <<117,768>> ELSE IF c = 250 THEN
            <<117,769>> ELSE IF c = 251 THEN <<117,770>> ELSE <<c>> ELSE IF c
            = 252 THEN <<117,776>> ELSE IF c = 253 THEN <<121,769>> ELSE IF c
            = 255 THEN <<121,776>> ELSE <<c>> ELSE IF c < 267 THEN IF c < 261
            THEN IF c < 258 THEN IF c = 256 THEN <<65,772>> ELSE IF c = 257
            THEN <<97,772>> ELSE <<c>> ELSE IF c = 258 THEN <<65,774>> ELSE IF
            c = 259 THEN <<97,774>> ELSE IF c = 260 THEN <<65,808>> ELSE <<c>>
            ELSE IF c < 264 THEN IF c = 261 THEN <<97,808>> ELSE IF c = 262
            THEN <<67,769>> ELSE IF c = 263 THEN <<99,769>> ELSE <<c>> ELSE IF
            c = 264 THEN <<67,770>> ELSE IF c = 265 THEN <<99,770>> ELSE IF c
            = 266 THEN <<67,775>> ELSE <<c>> ELSE IF c < 275 THEN IF c < 270
            THEN IF c = 267 THEN <<99,775>> ELSE IF c = 268 THEN <<67,780>>
            ELSE IF c = 269 THEN <<99,780>> ELSE <<c>> ELSE IF c = 270 THEN
            <<68,780>> ELSE IF c = 271 THEN <<100,780>> ELSE IF c = 274 THEN
            <<69,772>> ELSE <<c>> ELSE IF c < 278 THEN IF c = 275 THEN
            <<101,772>> ELSE IF c = 276 THEN <<69,774>> ELSE IF c = 277 THEN
            <<101,774>> ELSE <<c>> ELSE IF c = 278 THEN <<69,775>> ELSE IF c =
            279 THEN <<101,775>> ELSE IF c = 280 THEN <<69,808>> ELSE <<c>>
            ELSE IF c < 334 THEN IF c < 306 THEN IF c < 292 THEN IF c < 286
            THEN IF c < 283 THEN IF c = 281 THEN <<101,808>> ELSE IF c = 282
            THEN <<69,780>> ELSE <<c>> ELSE IF c = 283 THEN <<101,780>> ELSE
            IF c = 284 THEN <<71,770>> ELSE IF c = 285 THEN <<103,770>> ELSE
            <<c>> ELSE IF c < 289 THEN IF c = 286 THEN <<71,774>> ELSE IF c =
            287 THEN <<103,774>> ELSE IF c = 288 THEN <<71,775>> ELSE <<c>>
            ELSE IF c = 289 THEN <<103,775>> ELSE IF c = 290 THEN <<71,807>>
            ELSE IF c = 291 THEN <<103,807>> ELSE <<c>> ELSE IF c < 299 THEN
            IF c < 296 THEN IF c = 292 THEN <<72,770>> ELSE IF c = 293 THEN
            <<104,770>> ELSE <<c>> ELSE IF c = 296 THEN <<73,771>> ELSE IF c =
            297 THEN <<105,771>> ELSE IF c = 298 THEN <<73,772>> ELSE <<c>>
            ELSE IF c < 302 THEN IF c = 299 THEN <<105,772>> ELSE IF c = 300
            THEN <<73,774>> ELSE IF c = 301 THEN <<105,774>> ELSE <<c>> ELSE
            IF c = 302 THEN <<73,808>> ELSE IF c = 303 THEN <<105,808>> ELSE
            IF c = 304 THEN <<73,775>> ELSE <<c>> ELSE IF c < 318 THEN IF c <
            311 THEN IF c < 308 THEN IF c = 306 THEN <<73,74>> ELSE IF c = 307
            THEN <<105,106>> ELSE <<c>> ELSE IF c = 308 THEN <<74,770>> ELSE
            IF c = 309 THEN <<106,770>> ELSE IF c = 310 THEN <<75,807>> ELSE
            <<c>> ELSE IF c < 315 THEN IF c = 311 THEN <<107,807>> ELSE IF c =
            313 THEN <<76,769>> ELSE IF c = 314 THEN <<108,769>> ELSE <<c>>
            ELSE IF c = 315 THEN <<76,807>> ELSE IF c = 316 THEN <<108,807>>
            ELSE IF c = 317 THEN <<76,780>> ELSE <<c>> ELSE IF c < 326 THEN IF
            c < 323 THEN IF c = 318 THEN <<108,780>> ELSE IF c = 319 THEN
            <<76,183>> ELSE IF c = 320 THEN <<108,183>> ELSE <<c>> ELSE IF c =
            323 THEN <<78,769>> ELSE IF c = 324 THEN <<110,769>> ELSE IF c =
            325 THEN <<78,807>> ELSE <<c>> ELSE IF c < 329 THEN IF c = 326
            THEN <<110,807>> ELSE IF c = 327 THEN <<78,780>> ELSE IF c = 328
            THEN <<110,780>> ELSE <<c>> ELSE IF c = 329 THEN <<700,110>> ELSE
            IF c = 332 THEN <<79,772>> ELSE IF c = 333 THEN <<111,772>> ELSE
            <<c>> ELSE IF c < 361 THEN IF c < 347 THEN IF c < 341 THEN IF c <
            336 THEN IF c = 334 THEN <<79,774>> ELSE IF c = 335 THEN
            <<111,774>> ELSE <<c>> ELSE IF c = 336 THEN <<79,779>> ELSE IF c =
            337 THEN <<111,779>> ELSE IF c = 340 THEN <<82,769>> ELSE <<c>>
            ELSE IF c < 344 THEN IF c = 341 THEN <<114,769>> ELSE IF c = 342
            THEN <<82,807>> ELSE IF c = 343 THEN <<114,807>> ELSE <<c>> ELSE
            IF c = 344 THEN <<82,780>> ELSE IF c = 345 THEN <<114,780>> ELSE
            IF c = 346 THEN <<83,769>> ELSE <<c>> ELSE IF c < 353 THEN IF c <
            350 THEN IF c = 347 THEN <<115,769>> ELSE IF c = 348 THEN
            <<83,770>> ELSE IF c = 349 THEN <<115,770>> ELSE <<c>> ELSE IF c =
            350 THEN <<83,807>> ELSE IF c = 351 THEN <<115,807>> ELSE IF c =
            352 THEN <<83,780>> ELSE <<c>> ELSE IF c < 356 THEN IF c = 353
            THEN <<115,780>> ELSE IF c = 354 THEN <<84,807>> ELSE IF c = 355
            THEN <<116,807>> ELSE <<c>> ELSE IF c = 356 THEN <<84,780>> ELSE
            IF c = 357 THEN <<116,780>> ELSE IF c = 360 THEN <<85,771>> ELSE
            <<c>> ELSE IF c < 372 THEN IF c < 366 THEN IF c < 363 THEN IF c =
            361 THEN <<117,771>> ELSE IF c = 362 THEN <<85,772>> ELSE <<c>>
            ELSE IF c = 363 THEN <<117,772>> ELSE IF c = 364 THEN <<85,774>>
            ELSE IF c = 365 THEN <<117,774>> ELSE <<c>> ELSE IF c < 369 THEN
            IF c = 366 THEN <<85,778>> ELSE IF c = 367 THEN <<117,778>> ELSE
            IF c = 368 THEN <<85,779>> ELSE <<c>> ELSE IF c = 369 THEN
            <<117,779>> ELSE IF c = 370 THEN <<85,808>> ELSE IF c = 371 THEN
            <<117,808>> ELSE <<c>> ELSE IF c < 378 THEN IF c < 375 THEN IF c =
            372 THEN <<87,770>> ELSE IF c = 373 THEN <<119,770>> ELSE IF c =
            374 THEN <<89,770>> ELSE <<c>> ELSE IF c = 375 THEN <<121,770>>
            ELSE IF c = 376 THEN <<89,776>> ELSE IF c = 377 THEN <<90,769>>
            ELSE <<c>> ELSE IF c < 381 THEN IF c = 378 THEN <<122,769>> ELSE
            IF c = 379 THEN <<90,775>> ELSE IF c = 380 THEN <<122,775>> ELSE
            <<c>> ELSE IF c = 381 THEN <<90,780>> ELSE IF c = 382 THEN
            <<122,780>> ELSE IF c = 383 THEN <<115>> ELSE <<c>> ELSE IF c <
            551 THEN IF c < 496 THEN IF c < 470 THEN IF c < 459 THEN IF c <
            453 THEN IF c < 431 THEN IF c = 416 THEN <<79,795>> ELSE IF c =
            417 THEN <<111,795>> ELSE <<c>> ELSE IF c = 431 THEN <<85,795>>
            ELSE IF c = 432 THEN <<117,795>> ELSE IF c = 452 THEN
            <<68,90,780>> ELSE <<c>> ELSE IF c < 456 THEN IF c = 453 THEN
            <<68,122,780>> ELSE IF c = 454 THEN <<100,122,780>> ELSE IF c =
            455 THEN <<76,74>> ELSE <<c>> ELSE IF c = 456 THEN <<76,106>> ELSE
            IF c = 457 THEN <<108,106>> ELSE IF c = 458 THEN <<78,74>> ELSE
            <<c>> ELSE IF c < 464 THEN IF c < 461 THEN IF c = 459 THEN
            <<78,106>> ELSE IF c = 460 THEN <<110,106>> ELSE <<c>> ELSE IF c =
            461 THEN <<65,780>> ELSE IF c = 462 THEN <<97,780>> ELSE IF c =
            463 THEN <<73,780>> ELSE <<c>> ELSE IF c < 467 THEN IF c = 464
            THEN <<105,780>> ELSE IF c = 465 THEN <<79,780>> ELSE IF c = 466
            THEN <<111,780>> ELSE <<c>> ELSE IF c = 467 THEN <<85,780>> ELSE
            IF c = 468 THEN <<117,780>> ELSE IF c = 469 THEN <<85,776,772>>
            ELSE <<c>> ELSE IF c < 482 THEN IF c < 475 THEN IF c < 472 THEN IF
            c = 470 THEN <<117,776,772>> ELSE IF c = 471 THEN <<85,776,769>>
            ELSE <<c>> ELSE IF c = 472 THEN <<117,776,769>> ELSE IF c = 473
            THEN <<85,776,780>> ELSE IF c = 474 THEN <<117,776,780>> ELSE
            <<c>> ELSE IF c < 479 THEN IF c = 475 THEN <<85,776,768>> ELSE IF
            c = 476 THEN <<117,776,768>> ELSE IF c = 478 THEN <<65,776,772>>
            ELSE <<c>> ELSE IF c = 479 THEN <<97,776,772>> ELSE IF c = 480
            THEN <<65,775,772>> ELSE IF c = 481 THEN <<97,775,772>> ELSE <<c>>
            ELSE IF c < 490 THEN IF c < 487 THEN IF c = 482 THEN <<198,772>>
            ELSE IF c = 483 THEN <<230,772>> ELSE IF c = 486 THEN <<71,780>>
            ELSE <<c>> ELSE IF c = 487 THEN <<103,780>> ELSE IF c = 488 THEN
            <<75,780>> ELSE IF c = 489 THEN <<107,780>> ELSE <<c>> ELSE IF c <
            493 THEN IF c = 490 THEN <<79,808>> ELSE IF c = 491 THEN
            <<111,808>> ELSE IF c = 492 THEN <<79,808,772>> ELSE <<c>> ELSE IF
            c = 493 THEN <<111,808,772>> ELSE IF c = 494 THEN <<439,780>> ELSE
            IF c = 495 THEN <<658,780>> ELSE <<c>> ELSE IF c < 520 THEN IF c <
            509 THEN IF c < 501 THEN IF c < 498 THEN IF c = 496 THEN
            <<106,780>> ELSE IF c = 497 THEN <<68,90>> ELSE <<c>> ELSE IF c =
            498 THEN <<68,122>> ELSE IF c = 499 THEN <<100,122>> ELSE IF c =
            500 THEN <<71,769>> ELSE <<c>> ELSE IF c < 506 THEN IF c = 501
            THEN <<103,769>> ELSE IF c = 504 THEN <<78,768>> ELSE IF c = 505
            THEN <<110,768>> ELSE <<c>> ELSE IF c = 506 THEN <<65,778,769>>
            ELSE IF c = 507 THEN <<97,778,769>> ELSE IF c = 508 THEN
            <<198,769>> ELSE <<c>> ELSE IF c < 514 THEN IF c < 511 THEN IF c =
            509 THEN <<230,769>> ELSE IF c = 510 THEN <<216,769>> ELSE <<c>>
            ELSE IF c = 511 THEN <<248,769>> ELSE IF c = 512 THEN <<65,783>>
            ELSE IF c = 513 THEN <<97,783>> ELSE <<c>> ELSE IF c < 517 THEN IF
            c = 514 THEN <<65,785>> ELSE IF c = 515 THEN <<97,785>> ELSE IF c
            = 516 THEN <<69,783>> ELSE <<c>> ELSE IF c = 517 THEN <<101,783>>
            ELSE IF c = 518 THEN <<69,785>> ELSE IF c = 519 THEN <<101,785>>
            ELSE <<c>> ELSE IF c < 531 THEN IF c < 525 THEN IF c < 522 THEN IF
            c = 520 THEN <<73,783>> ELSE IF c = 521 THEN <<105,783>> ELSE
            <<c>> ELSE IF c = 522 THEN <<73,785>> ELSE IF c = 523 THEN
            <<105,785>> ELSE IF c = 524 THEN <<79,783>> ELSE <<c>> ELSE IF c <
            528 THEN IF c = 525 THEN <<111,783>> ELSE IF c = 526 THEN
            <<79,785>> ELSE IF c = 527 THEN <<111,785>> ELSE <<c>> ELSE IF c =
            528 THEN <<82,783>> ELSE IF c = 529 THEN <<114,783>> ELSE IF c =
            530 THEN <<82,785>> ELSE <<c>> ELSE IF c < 537 THEN IF c < 534
            THEN IF c = 531 THEN <<114,785>> ELSE IF c = 532 THEN <<85,783>>
            ELSE IF c = 533 THEN <<117,783>> ELSE <<c>> ELSE IF c = 534 THEN
            <<85,785>> ELSE IF c = 535 THEN <<117,785>> ELSE IF c = 536 THEN
            <<83,806>> ELSE <<c>> ELSE IF c < 542 THEN IF c = 537 THEN
            <<115,806>> ELSE IF c = 538 THEN <<84,806>> ELSE IF c = 539 THEN
            <<116,806>> ELSE <<c>> ELSE IF c = 542 THEN <<72,780>> ELSE IF c =
            543 THEN <<104,780>> ELSE IF c = 550 THEN <<65,775>> ELSE <<c>>
            ELSE IF c < 905 THEN IF c < 728 THEN IF c < 562 THEN IF c < 556
            THEN IF c < 553 THEN IF c = 551 THEN <<97,775>> ELSE IF c = 552
            THEN <<69,807>> ELSE <<c>> ELSE IF c = 553 THEN <<101,807>> ELSE
            IF c = 554 THEN <<79,776,772>> ELSE IF c = 555 THEN
            <<111,776,772>> ELSE <<c>> ELSE IF c < 559 THEN IF c = 556 THEN
            <<79,771,772>> ELSE IF c = 557 THEN <<111,771,772>> ELSE IF c =
            558 THEN <<79,775>> ELSE <<c>> ELSE IF c = 559 THEN <<111,775>>
            ELSE IF c = 560 THEN <<79,775,772>> ELSE IF c = 561 THEN
            <<111,775,772>> ELSE <<c>> ELSE IF c < 691 THEN IF c < 688 THEN IF
            c = 562 THEN <<89,772>> ELSE IF c = 563 THEN <<121,772>> ELSE
            <<c>> ELSE IF c = 688 THEN <<104>> ELSE IF c = 689 THEN <<614>>
            ELSE IF c = 690 THEN <<106>> ELSE <<c>> ELSE IF c < 694 THEN IF c
            = 691 THEN <<114>> ELSE IF c = 692 THEN <<633>> ELSE IF c = 693
            THEN <<635>> ELSE <<c>> ELSE IF c = 694 THEN <<641>> ELSE IF c =
            695 THEN <<119>> ELSE IF c = 696 THEN <<121>> ELSE <<c>> ELSE IF c
            < 832 THEN IF c < 733 THEN IF c < 730 THEN IF c = 728 THEN
            <<32,774>> ELSE IF c = 729 THEN <<32,775>> ELSE <<c>> ELSE IF c =
            730 THEN <<32,778>> ELSE IF c = 731 THEN <<32,808>> ELSE IF c =
            732 THEN <<32,771>> ELSE <<c>> ELSE IF c < 738 THEN IF c = 733
            THEN <<32,779>> ELSE IF c = 736 THEN <<611>> ELSE IF c = 737 THEN
            <<108>> ELSE <<c>> ELSE IF c = 738 THEN <<115>> ELSE IF c = 739
            THEN <<120>> ELSE IF c = 740 THEN <<661>> ELSE <<c>> ELSE IF c <
            894 THEN IF c < 836 THEN IF c = 832 THEN <<768>> ELSE IF c = 833
            THEN <<769>> ELSE IF c = 835 THEN <<787>> ELSE <<c>> ELSE IF c =
            836 THEN <<776,769>> ELSE IF c = 884 THEN <<697>> ELSE IF c = 890
            THEN <<32,837>> ELSE <<c>> ELSE IF c < 902 THEN IF c = 894 THEN
            <<59>> ELSE IF c = 900 THEN <<32,769>> ELSE IF c = 901 THEN
            <<32,776,769>> ELSE <<c>> ELSE IF c = 902 THEN <<913,769>> ELSE IF
            c = 903 THEN <<183>> ELSE IF c = 904 THEN <<917,769>> ELSE <<c>>
            ELSE IF c < 981 THEN IF c < 943 THEN IF c < 912 THEN IF c < 908
            THEN IF c = 905 THEN <<919,769>> ELSE IF c = 906 THEN <<921,769>>
            ELSE <<c>> ELSE IF c = 908 THEN <<927,769>> ELSE IF c = 910 THEN
            <<933,769>> ELSE IF c = 911 THEN <<937,769>> ELSE <<c>> ELSE IF c
            < 940 THEN IF c = 912 THEN <<953,776,769>> ELSE IF c = 938 THEN
            <<921,776>> ELSE IF c = 939 THEN <<933,776>> ELSE <<c>> ELSE IF c
            = 940 THEN <<945,769>> ELSE IF c = 941 THEN <<949,769>> ELSE IF c
            = 942 THEN <<951,769>> ELSE <<c>> ELSE IF c < 974 THEN IF c < 971
            THEN IF c = 943 THEN <<953,769>> ELSE IF c = 944 THEN
            <<965,776,769>> ELSE IF c = 970 THEN <<953,776>> ELSE <<c>> ELSE
            IF c = 971 THEN <<965,776>> ELSE IF c = 972 THEN <<959,769>> ELSE
            IF c = 973 THEN <<965,769>> ELSE <<c>> ELSE IF c < 978 THEN IF c =
            974 THEN <<969,769>> ELSE IF c = 976 THEN <<946>> ELSE IF c = 977
            THEN <<952>> ELSE <<c>> ELSE IF c = 978 THEN <<933>> ELSE IF c =
            979 THEN <<933,769>> ELSE IF c = 980 THEN <<933,776>> ELSE <<c>>
            ELSE IF c < 1031 THEN IF c < 1012 THEN IF c < 1008 THEN IF c = 981
            THEN <<966>> ELSE IF c = 982 THEN <<960>> ELSE <<c>> ELSE IF c =
            1008 THEN <<954>> ELSE IF c = 1009 THEN <<961>> ELSE IF c = 1010
            THEN <<962>> ELSE <<c>> ELSE IF c < 1024 THEN IF c = 1012 THEN
            <<920>> ELSE IF c = 1013 THEN <<949>> ELSE IF c = 1017 THEN
            <<931>> ELSE <<c>> ELSE IF c = 1024 THEN <<1045,768>> ELSE IF c =
            1025 THEN <<1045,776>> ELSE IF c = 1027 THEN <<1043,769>> ELSE
            <<c>> ELSE IF c < 1104 THEN IF c < 1038 THEN IF c = 1031 THEN
            <<1030,776>> ELSE IF c = 1036 THEN <<1050,769>> ELSE IF c = 1037
            THEN <<1048,768>> ELSE <<c>> ELSE IF c = 1038 THEN <<1059,774>>
            ELSE IF c = 1049 THEN <<1048,774>> ELSE IF c = 1081 THEN
            <<1080,774>> ELSE <<c>> ELSE IF c < 1111 THEN IF c = 1104 THEN
            <<1077,768>> ELSE IF c = 1105 THEN <<1077,776>> ELSE IF c = 1107
            THEN <<1075,769>> ELSE <<c>> ELSE IF c = 1111 THEN <<1110,776>>
            ELSE IF c = 1116 THEN <<1082,769>> ELSE IF c = 1117 THEN
            <<1080,768>> ELSE <<c>> ELSE IF c < 7521 THEN IF c < 3546 THEN IF
            c < 1655 THEN IF c < 1255 THEN IF c < 1242 THEN IF c < 1232 THEN
            IF c < 1143 THEN IF c = 1118 THEN <<1091,774>> ELSE IF c = 1142
            THEN <<1140,783>> ELSE <<c>> ELSE IF c = 1143 THEN <<1141,783>>
            ELSE IF c = 1217 THEN <<1046,774>> ELSE IF c = 1218 THEN
            <<1078,774>> ELSE <<c>> ELSE IF c < 1235 THEN IF c = 1232 THEN
            <<1040,774>> ELSE IF c = 1233 THEN <<1072,774>> ELSE IF c = 1234
            THEN <<1040,776>> ELSE <<c>> ELSE IF c = 1235 THEN <<1072,776>>
            ELSE IF c = 1238 THEN <<1045,774>> ELSE IF c = 1239 THEN
            <<1077,774>> ELSE <<c>> ELSE IF c < 1247 THEN IF c < 1244 THEN IF
            c = 1242 THEN <<1240,776>> ELSE IF c = 1243 THEN <<1241,776>> ELSE
            <<c>> ELSE IF c = 1244 THEN <<1046,776>> ELSE IF c = 1245 THEN
            <<1078,776>> ELSE IF c = 1246 THEN <<1047,776>> ELSE <<c>> ELSE IF
            c < 1252 THEN IF c = 1247 THEN <<1079,776>> ELSE IF c = 1250 THEN
            <<1048,772>> ELSE IF c = 1251 THEN <<1080,772>> ELSE <<c>> ELSE IF
            c = 1252 THEN <<1048,776>> ELSE IF c = 1253 THEN <<1080,776>> ELSE
            IF c = 1254 THEN <<1054,776>> ELSE <<c>> ELSE IF c < 1268 THEN IF
            c < 1262 THEN IF c < 1259 THEN IF c = 1255 THEN <<1086,776>> ELSE
            IF c = 1258 THEN <<1256,776>> ELSE <<c>> ELSE IF c = 1259 THEN
            <<1257,776>> ELSE IF c = 1260 THEN <<1069,776>> ELSE IF c = 1261
            THEN <<1101,776>> ELSE <<c>> ELSE IF c < 1265 THEN IF c = 1262
            THEN <<1059,772>> ELSE IF c = 1263 THEN <<1091,772>> ELSE IF c =
            1264 THEN <<1059,776>> ELSE <<c>> ELSE IF c = 1265 THEN
            <<1091,776>> ELSE IF c = 1266 THEN <<1059,779>> ELSE IF c = 1267
            THEN <<1091,779>> ELSE <<c>> ELSE IF c < 1571 THEN IF c < 1273
            THEN IF c = 1268 THEN <<1063,776>> ELSE IF c = 1269 THEN
            <<1095,776>> ELSE IF c = 1272 THEN <<1067,776>> ELSE <<c>> ELSE IF
            c = 1273 THEN <<1099,776>> ELSE IF c = 1415 THEN <<1381,1410>>
            ELSE IF c = 1570 THEN <<1575,1619>> ELSE <<c>> ELSE IF c < 1574
            THEN IF c = 1571 THEN <<1575,1620>> ELSE IF c = 1572 THEN
            <<1608,1620>> ELSE IF c = 1573 THEN <<1575,1621>> ELSE <<c>> ELSE
            IF c = 1574 THEN <<1610,1620>> ELSE IF c = 1653 THEN <<1575,1652>>
            ELSE IF c = 1654 THEN <<1608,1652>> ELSE <<c>> ELSE IF c < 2614
            THEN IF c < 2395 THEN IF c < 2345 THEN IF c < 1728 THEN IF c =
            1655 THEN <<1735,1652>> ELSE IF c = 1656 THEN <<1610,1652>> ELSE
            <<c>> ELSE IF c = 1728 THEN <<1749,1620>> ELSE IF c = 1730 THEN
            <<1729,1620>> ELSE IF c = 1747 THEN <<1746,1620>> ELSE <<c>> ELSE
            IF c < 2392 THEN IF c = 2345 THEN <<2344,2364>> ELSE IF c = 2353
            THEN <<2352,2364>> ELSE IF c = 2356 THEN <<2355,2364>> ELSE <<c>>
            ELSE IF c = 2392 THEN <<2325,2364>> ELSE IF c = 2393 THEN
            <<2326,2364>> ELSE IF c = 2394 THEN <<2327,2364>> ELSE <<c>> ELSE
            IF c < 2507 THEN IF c < 2397 THEN IF c = 2395 THEN <<2332,2364>>
            ELSE IF c = 2396 THEN <<2337,2364>> ELSE <<c>> ELSE IF c = 2397
            THEN <<2338,2364>> ELSE IF c = 2398 THEN <<2347,2364>> ELSE IF c =
            2399 THEN <<2351,2364>> ELSE <<c>> ELSE IF c < 2525 THEN IF c =
            2507 THEN <<2503,2494>> ELSE IF c = 2508 THEN <<2503,2519>> ELSE
            IF c = 2524 THEN <<2465,2492>> ELSE <<c>> ELSE IF c = 2525 THEN
            <<2466,2492>> ELSE IF c = 2527 THEN <<2479,2492>> ELSE IF c = 2611
            THEN <<2610,2620>> ELSE <<c>> ELSE IF c < 3018 THEN IF c < 2888
            THEN IF c < 2650 THEN IF c = 2614 THEN <<2616,2620>> ELSE IF c =
            2649 THEN <<2582,2620>> ELSE <<c>> ELSE IF c = 2650 THEN
            <<2583,2620>> ELSE IF c = 2651 THEN <<2588,2620>> ELSE IF c = 2654
            THEN <<2603,2620>> ELSE <<c>> ELSE IF c < 2908 THEN IF c = 2888
            THEN <<2887,2902>> ELSE IF c = 2891 THEN <<2887,2878>> ELSE IF c =
            2892 THEN <<2887,2903>> ELSE <<c>> ELSE IF c = 2908 THEN
            <<2849,2876>> ELSE IF c = 2909 THEN <<2850,2876>> ELSE IF c = 2964
            THEN <<2962,3031>> ELSE <<c>> ELSE IF c < 3272 THEN IF c < 3144
            THEN IF c = 3018 THEN <<3014,3006>> ELSE IF c = 3019 THEN
            <<3015,3006>> ELSE IF c = 3020 THEN <<3014,3031>> ELSE <<c>> ELSE
            IF c = 3144 THEN <<3142,3158>> ELSE IF c = 3264 THEN <<3263,3285>>
            ELSE IF c = 3271 THEN <<3270,3285>> ELSE <<c>> ELSE IF c < 3402
            THEN IF c = 3272 THEN <<3270,3286>> ELSE IF c = 3274 THEN
            <<3270,3266>> ELSE IF c = 3275 THEN <<3270,3266,3285>> ELSE <<c>>
            ELSE IF c = 3402 THEN <<3398,3390>> ELSE IF c = 3403 THEN
            <<3399,3390>> ELSE IF c = 3404 THEN <<3398,3415>> ELSE <<c>> ELSE
            IF c < 7473 THEN IF c < 3987 THEN IF c < 3922 THEN IF c < 3763
            THEN IF c < 3549 THEN IF c = 3546 THEN <<3545,3530>> ELSE IF c =
            3548 THEN <<3545,3535>> ELSE <<c>> ELSE IF c = 3549 THEN
            <<3545,3535,3530>> ELSE IF c = 3550 THEN <<3545,3551>> ELSE IF c =
            3635 THEN <<3661,3634>> ELSE <<c>> ELSE IF c < 3852 THEN IF c =
            3763 THEN <<3789,3762>> ELSE IF c = 3804 THEN <<3755,3737>> ELSE
            IF c = 3805 THEN <<3755,3745>> ELSE <<c>> ELSE IF c = 3852 THEN
            <<3851>> ELSE IF c = 3907 THEN <<3906,4023>> ELSE IF c = 3917 THEN
            <<3916,4023>> ELSE <<c>> ELSE IF c < 3957 THEN IF c < 3932 THEN IF
            c = 3922 THEN <<3921,4023>> ELSE IF c = 3927 THEN <<3926,4023>>
            ELSE <<c>> ELSE IF c = 3932 THEN <<3931,4023>> ELSE IF c = 3945
            THEN <<3904,4021>> ELSE IF c = 3955 THEN <<3953,3954>> ELSE <<c>>
            ELSE IF c < 3960 THEN IF c = 3957 THEN <<3953,3956>> ELSE IF c =
            3958 THEN <<4018,3968>> ELSE IF c = 3959 THEN <<4018,3953,3968>>
            ELSE <<c>> ELSE IF c = 3960 THEN <<4019,3968>> ELSE IF c = 3961
            THEN <<4019,3953,3968>> ELSE IF c = 3969 THEN <<3953,3968>> ELSE
            <<c>> ELSE IF c < 6924 THEN IF c < 4025 THEN IF c < 4002 THEN IF c
            = 3987 THEN <<3986,4023>> ELSE IF c = 3997 THEN <<3996,4023>> ELSE
            <<c>> ELSE IF c = 4002 THEN <<4001,4023>> ELSE IF c = 4007 THEN
            <<4006,4023>> ELSE IF c = 4012 THEN <<4011,4023>> ELSE <<c>> ELSE
            IF c < 6918 THEN IF c = 4025 THEN <<3984,4021>> ELSE IF c = 4134
            THEN <<4133,4142>> ELSE IF c = 4348 THEN <<4316>> ELSE <<c>> ELSE
            IF c = 6918 THEN <<6917,6965>> ELSE IF c = 6920 THEN <<6919,6965>>
            ELSE IF c = 6922 THEN <<6921,6965>> ELSE <<c>> ELSE IF c < 6977
            THEN IF c < 6971 THEN IF c = 6924 THEN <<6923,6965>> ELSE IF c =
            6926 THEN <<6925,6965>> ELSE IF c = 6930 THEN <<6929,6965>> ELSE
            <<c>> ELSE IF c = 6971 THEN <<6970,6965>> ELSE IF c = 6973 THEN
            <<6972,6965>> ELSE IF c = 6976 THEN <<6974,6965>> ELSE <<c>> ELSE
            IF c < 7469 THEN IF c = 6977 THEN <<6975,6965>> ELSE IF c = 6979
            THEN <<6978,6965>> ELSE IF c = 7468 THEN <<65>> ELSE <<c>> ELSE IF
            c = 7469 THEN <<198>> ELSE IF c = 7470 THEN <<66>> ELSE IF c =
            7472 THEN <<68>> ELSE <<c>> ELSE IF c < 7497 THEN IF c < 7485 THEN
            IF c < 7478 THEN IF c < 7475 THEN IF c = 7473 THEN <<69>> ELSE IF
            c = 7474 THEN <<398>> ELSE <<c>> ELSE IF c = 7475 THEN <<71>> ELSE
            IF c = 7476 THEN <<72>> ELSE IF c = 7477 THEN <<73>> ELSE <<c>>
            ELSE IF c < 7481 THEN IF c = 7478 THEN <<74>> ELSE IF c = 7479
            THEN <<75>> ELSE IF c = 7480 THEN <<76>> ELSE <<c>> ELSE IF c =
            7481 THEN <<77>> ELSE IF c = 7482 THEN <<78>> ELSE IF c = 7484
            THEN <<79>> ELSE <<c>> ELSE IF c < 7491 THEN IF c < 7488 THEN IF c
            = 7485 THEN <<546>> ELSE IF c = 7486 THEN <<80>> ELSE IF c = 7487
            THEN <<82>> ELSE <<c>> ELSE IF c = 7488 THEN <<84>> ELSE IF c =
            7489 THEN <<85>> ELSE IF c = 7490 THEN <<87>> ELSE <<c>> ELSE IF c
            < 7494 THEN IF c = 7491 THEN <<97>> ELSE IF c = 7492 THEN <<592>>
            ELSE IF c = 7493 THEN <<593>> ELSE <<c>> ELSE IF c = 7494 THEN
            <<7426>> ELSE IF c = 7495 THEN <<98>> ELSE IF c = 7496 THEN
            <<100>> ELSE <<c>> ELSE IF c < 7509 THEN IF c < 7503 THEN IF c <
            7499 THEN IF c = 7497 THEN <<101>> ELSE IF c = 7498 THEN <<601>>
            ELSE <<c>> ELSE IF c = 7499 THEN <<603>> ELSE IF c = 7500 THEN
            <<604>> ELSE IF c = 7501 THEN <<103>> ELSE <<c>> ELSE IF c < 7506
            THEN IF c = 7503 THEN <<107>> ELSE IF c = 7504 THEN <<109>> ELSE
            IF c = 7505 THEN <<331>> ELSE <<c>> ELSE IF c = 7506 THEN <<111>>
            ELSE IF c = 7507 THEN <<596>> ELSE IF c = 7508 THEN <<7446>> ELSE
            <<c>> ELSE IF c < 7515 THEN IF c < 7512 THEN IF c = 7509 THEN
            <<7447>> ELSE IF c = 7510 THEN <<112>> ELSE IF c = 7511 THEN
            <<116>> ELSE <<c>> ELSE IF c = 7512 THEN <<117>> ELSE IF c = 7513
            THEN <<7453>> ELSE IF c = 7514 THEN <<623>> ELSE <<c>> ELSE IF c <
            7518 THEN IF c = 7515 THEN <<118>> ELSE IF c = 7516 THEN <<7461>>
            ELSE IF c = 7517 THEN <<946>> ELSE <<c>> ELSE IF c = 7518 THEN
            <<947>> ELSE IF c = 7519 THEN <<948>> ELSE IF c = 7520 THEN
            <<966>> ELSE <<c>> ELSE IF c < 7722 THEN IF c < 7613 THEN IF c <
            7590 THEN IF c < 7579 THEN IF c < 7526 THEN IF c < 7523 THEN IF c
            = 7521 THEN <<967>> ELSE IF c = 7522 THEN <<105>> ELSE <<c>> ELSE
            IF c = 7523 THEN <<114>> ELSE IF c = 7524 THEN <<117>> ELSE IF c =
            7525 THEN <<118>> ELSE <<c>> ELSE IF c < 7529 THEN IF c = 7526
            THEN <<946>> ELSE IF c = 7527 THEN <<947>> ELSE IF c = 7528 THEN
            <<961>> ELSE <<c>> ELSE IF c = 7529 THEN <<966>> ELSE IF c = 7530
            THEN <<967>> ELSE IF c = 7544 THEN <<1085>> ELSE <<c>> ELSE IF c <
            7584 THEN IF c < 7581 THEN IF c = 7579 THEN <<594>> ELSE IF c =
            7580 THEN <<99>> ELSE <<c>> ELSE IF c = 7581 THEN <<597>> ELSE IF
            c = 7582 THEN <<240>> ELSE IF c = 7583 THEN <<604>> ELSE <<c>>
            ELSE IF c < 7587 THEN IF c = 7584 THEN <<102>> ELSE IF c = 7585
            THEN <<607>> ELSE IF c = 7586 THEN <<609>> ELSE <<c>> ELSE IF c =
            7587 THEN <<613>> ELSE IF c = 7588 THEN <<616>> ELSE IF c = 7589
            THEN <<617>> ELSE <<c>> ELSE IF c < 7601 THEN IF c < 7595 THEN IF
            c < 7592 THEN IF c = 7590 THEN <<618>> ELSE IF c = 7591 THEN
            <<7547>> ELSE <<c>> ELSE IF c = 7592 THEN <<669>> ELSE IF c = 7593
            THEN <<621>> ELSE IF c = 7594 THEN <<7557>> ELSE <<c>> ELSE IF c <
            7598 THEN IF c = 7595 THEN <<671>> ELSE IF c = 7596 THEN <<625>>
            ELSE IF c = 7597 THEN <<624>> ELSE <<c>> ELSE IF c = 7598 THEN
            <<626>> ELSE IF c = 7599 THEN <<627>> ELSE IF c = 7600 THEN
            <<628>> ELSE <<c>> ELSE IF c < 7607 THEN IF c < 7604 THEN IF c =
            7601 THEN <<629>> ELSE IF c = 7602 THEN <<632>> ELSE IF c = 7603
            THEN <<642>> ELSE <<c>> ELSE IF c = 7604 THEN <<643>> ELSE IF c =
            7605 THEN <<427>> ELSE IF c = 7606 THEN <<649>> ELSE <<c>> ELSE IF
            c < 7610 THEN IF c = 7607 THEN <<650>> ELSE IF c = 7608 THEN
            <<7452>> ELSE IF c = 7609 THEN <<651>> ELSE <<c>> ELSE IF c = 7610
            THEN <<652>> ELSE IF c = 7611 THEN <<122>> ELSE IF c = 7612 THEN
            <<656>> ELSE <<c>> ELSE IF c < 7699 THEN IF c < 7688 THEN IF c <
            7682 THEN IF c < 7615 THEN IF c = 7613 THEN <<657>> ELSE IF c =
            7614 THEN <<658>> ELSE <<c>> ELSE IF c = 7615 THEN <<952>> ELSE IF
            c = 7680 THEN <<65,805>> ELSE IF c = 7681 THEN <<97,805>> ELSE
            <<c>> ELSE IF c < 7685 THEN IF c = 7682 THEN <<66,775>> ELSE IF c
            = 7683 THEN <<98,775>> ELSE IF c = 7684 THEN <<66,803>> ELSE <<c>>
            ELSE IF c = 7685 THEN <<98,803>> ELSE IF c = 7686 THEN <<66,817>>
            ELSE IF c = 7687 THEN <<98,817>> ELSE <<c>> ELSE IF c < 7693 THEN
            IF c < 7690 THEN IF c = 7688 THEN <<67,807,769>> ELSE IF c = 7689
            THEN <<99,807,769>> ELSE <<c>> ELSE IF c = 7690 THEN <<68,775>>
            ELSE IF c = 7691 THEN <<100,775>> ELSE IF c = 7692 THEN <<68,803>>
            ELSE <<c>> ELSE IF c < 7696 THEN IF c = 7693 THEN <<100,803>> ELSE
            IF c = 7694 THEN <<68,817>> ELSE IF c = 7695 THEN <<100,817>> ELSE
            <<c>> ELSE IF c = 7696 THEN <<68,807>> ELSE IF c = 7697 THEN
            <<100,807>> ELSE IF c = 7698 THEN <<68,813>> ELSE <<c>> ELSE IF c
            < 7710 THEN IF c < 7704 THEN IF c < 7701 THEN IF c = 7699 THEN
            <<100,813>> ELSE IF c = 7700 THEN <<69,772,768>> ELSE <<c>> ELSE
            IF c = 7701 THEN <<101,772,768>> ELSE IF c = 7702 THEN
            <<69,772,769>> ELSE IF c = 7703 THEN <<101,772,769>> ELSE <<c>>
            ELSE IF c < 7707 THEN IF c = 7704 THEN <<69,813>> ELSE IF c = 7705
            THEN <<101,813>> ELSE IF c = 7706 THEN <<69,816>> ELSE <<c>> ELSE
            IF c = 7707 THEN <<101,816>> ELSE IF c = 7708 THEN <<69,807,774>>
            ELSE IF c = 7709 THEN <<101,807,774>> ELSE <<c>> ELSE IF c < 7716
            THEN IF c < 7713 THEN IF c = 7710 THEN <<70,775>> ELSE IF c = 7711
            THEN <<102,775>> ELSE IF c = 7712 THEN <<71,772>> ELSE <<c>> ELSE
            IF c = 7713 THEN <<103,772>> ELSE IF c = 7714 THEN <<72,775>> ELSE
            IF c = 7715 THEN <<104,775>> ELSE <<c>> ELSE IF c < 7719 THEN IF c
            = 7716 THEN <<72,803>> ELSE IF c = 7717 THEN <<104,803>> ELSE IF c
            = 7718 THEN <<72,776>> ELSE <<c>> ELSE IF c = 7719 THEN
            <<104,776>> ELSE IF c = 7720 THEN <<72,807>> ELSE IF c = 7721 THEN
            <<104,807>> ELSE <<c>> ELSE IF c < 7767 THEN IF c < 7744 THEN IF c
            < 7733 THEN IF c < 7727 THEN IF c < 7724 THEN IF c = 7722 THEN
            <<72,814>> ELSE IF c = 7723 THEN <<104,814>> ELSE <<c>> ELSE IF c
            = 7724 THEN <<73,816>> ELSE IF c = 7725 THEN <<105,816>> ELSE IF c
            = 7726 THEN <<73,776,769>> ELSE <<c>> ELSE IF c < 7730 THEN IF c =
            7727 THEN <<105,776,769>> ELSE IF c = 7728 THEN <<75,769>> ELSE IF
            c = 7729 THEN <<107,769>> ELSE <<c>> ELSE IF c = 7730 THEN
            <<75,803>> ELSE IF c = 7731 THEN <<107,803>> ELSE IF c = 7732 THEN
            <<75,817>> ELSE <<c>> ELSE IF c < 7738 THEN IF c < 7735 THEN IF c
            = 7733 THEN <<107,817>> ELSE IF c = 7734 THEN <<76,803>> ELSE
            <<c>> ELSE IF c = 7735 THEN <<108,803>> ELSE IF c = 7736 THEN
            <<76,803,772>> ELSE IF c = 7737 THEN <<108,803,772>> ELSE <<c>>
            ELSE IF c < 7741 THEN IF c = 7738 THEN <<76,817>> ELSE IF c = 7739
            THEN <<108,817>> ELSE IF c = 7740 THEN <<76,813>> ELSE <<c>> ELSE
            IF c = 7741 THEN <<108,813>> ELSE IF c = 7742 THEN <<77,769>> ELSE
            IF c = 7743 THEN <<109,769>> ELSE <<c>> ELSE IF c < 7755 THEN IF c
            < 7749 THEN IF c < 7746 THEN IF c = 7744 THEN <<77,775>> ELSE IF c
            = 7745 THEN <<109,775>> ELSE <<c>> ELSE IF c = 7746 THEN
            <<77,803>> ELSE IF c = 7747 THEN <<109,803>> ELSE IF c = 7748 THEN
            <<78,775>> ELSE <<c>> ELSE IF c < 7752 THEN IF c = 7749 THEN
            <<110,775>> ELSE IF c = 7750 THEN <<78,803>> ELSE IF c = 7751 THEN
            <<110,803>> ELSE <<c>> ELSE IF c = 7752 THEN <<78,817>> ELSE IF c
            = 7753 THEN <<110,817>> ELSE IF c = 7754 THEN <<78,813>> ELSE
            <<c>> ELSE IF c < 7761 THEN IF c < 7758 THEN IF c = 7755 THEN
            <<110,813>> ELSE IF c = 7756 THEN <<79,771,769>> ELSE IF c = 7757
            THEN <<111,771,769>> ELSE <<c>> ELSE IF c = 7758 THEN
            <<79,771,776>> ELSE IF c = 7759 THEN <<111,771,776>> ELSE IF c =
            7760 THEN <<79,772,768>> ELSE <<c>> ELSE IF c < 7764 THEN IF c =
            7761 THEN <<111,772,768>> ELSE IF c = 7762 THEN <<79,772,769>>
            ELSE IF c = 7763 THEN <<111,772,769>> ELSE <<c>> ELSE IF c = 7764
            THEN <<80,769>> ELSE IF c = 7765 THEN <<112,769>> ELSE IF c = 7766
            THEN <<80,775>> ELSE <<c>> ELSE IF c < 7790 THEN IF c < 7778 THEN
            IF c < 7772 THEN IF c < 7769 THEN IF c = 7767 THEN <<112,775>>
            ELSE IF c = 7768 THEN <<82,775>> ELSE <<c>> ELSE IF c = 7769 THEN
            <<114,775>> ELSE IF c = 7770 THEN <<82,803>> ELSE IF c = 7771 THEN
            <<114,803>> ELSE <<c>> ELSE IF c < 7775 THEN IF c = 7772 THEN
            <<82,803,772>> ELSE IF c = 7773 THEN <<114,803,772>> ELSE IF c =
            7774 THEN <<82,817>> ELSE <<c>> ELSE IF c = 7775 THEN <<114,817>>
            ELSE IF c = 7776 THEN <<83,775>> ELSE IF c = 7777 THEN <<115,775>>
            ELSE <<c>> ELSE IF c < 7784 THEN IF c < 7781 THEN IF c = 7778 THEN
            <<83,803>> ELSE IF c = 7779 THEN <<115,803>> ELSE IF c = 7780 THEN
            <<83,769,775>> ELSE <<c>> ELSE IF c = 7781 THEN <<115,769,775>>
            ELSE IF c = 7782 THEN <<83,780,775>> ELSE IF c = 7783 THEN
            <<115,780,775>> ELSE <<c>> ELSE IF c < 7787 THEN IF c = 7784 THEN
            <<83,803,775>> ELSE IF c = 7785 THEN <<115,803,775>> ELSE IF c =
            7786 THEN <<84,775>> ELSE <<c>> ELSE IF c = 7787 THEN <<116,775>>
            ELSE IF c = 7788 THEN <<84,803>> ELSE IF c = 7789 THEN <<116,803>>
            ELSE <<c>> ELSE IF c < 7801 THEN IF c < 7795 THEN IF c < 7792 THEN
            IF c = 7790 THEN <<84,817>> ELSE IF c = 7791 THEN <<116,817>> ELSE
            <<c>> ELSE IF c = 7792 THEN <<84,813>> ELSE IF c = 7793 THEN
            <<116,813>> ELSE IF c = 7794 THEN <<85,804>> ELSE <<c>> ELSE IF c
            < 7798 THEN IF c = 7795 THEN <<117,804>> ELSE IF c = 7796 THEN
            <<85,816>> ELSE IF c = 7797 THEN <<117,816>> ELSE <<c>> ELSE IF c
            = 7798 THEN <<85,813>> ELSE IF c = 7799 THEN <<117,813>> ELSE IF c
            = 7800 THEN <<85,771,769>> ELSE <<c>> ELSE IF c < 7807 THEN IF c <
            7804 THEN IF c = 7801 THEN <<117,771,769>> ELSE IF c = 7802 THEN
            <<85,772,776>> ELSE IF c = 7803 THEN <<117,772,776>> ELSE <<c>>
            ELSE IF c = 7804 THEN <<86,771>> ELSE IF c = 7805 THEN <<118,771>>
            ELSE IF c = 7806 THEN <<86,803>> ELSE <<c>> ELSE IF c < 7810 THEN
            IF c = 7807 THEN <<118,803>> ELSE IF c = 7808 THEN <<87,768>> ELSE
            IF c = 7809 THEN <<119,768>> ELSE <<c>> ELSE IF c = 7810 THEN
            <<87,769>> ELSE IF c = 7811 THEN <<119,769>> ELSE IF c = 7812 THEN
            <<87,776>> ELSE <<c>> ELSE IF c < 8239 THEN IF c < 8010 THEN IF c
            < 7907 THEN IF c < 7862 THEN IF c < 7835 THEN IF c < 7824 THEN IF
            c < 7818 THEN IF c < 7815 THEN IF c = 7813 THEN <<119,776>> ELSE
            IF c = 7814 THEN <<87,775>> ELSE <<c>> ELSE IF c = 7815 THEN
            <<119,775>> ELSE IF c = 7816 THEN <<87,803>> ELSE IF c = 7817 THEN
            <<119,803>> ELSE <<c>> ELSE IF c < 7821 THEN IF c = 7818 THEN
            <<88,775>> ELSE IF c = 7819 THEN <<120,775>> ELSE IF c = 7820 THEN
            <<88,776>> ELSE <<c>> ELSE IF c = 7821 THEN <<120,776>> ELSE IF c
            = 7822 THEN <<89,775>> ELSE IF c = 7823 THEN <<121,775>> ELSE
            <<c>> ELSE IF c < 7829 THEN IF c < 7826 THEN IF c = 7824 THEN
            <<90,770>> ELSE IF c = 7825 THEN <<122,770>> ELSE <<c>> ELSE IF c
            = 7826 THEN <<90,803>> ELSE IF c = 7827 THEN <<122,803>> ELSE IF c
            = 7828 THEN <<90,817>> ELSE <<c>> ELSE IF c < 7832 THEN IF c =
            7829 THEN <<122,817>> ELSE IF c = 7830 THEN <<104,817>> ELSE IF c
            = 7831 THEN <<116,776>> ELSE <<c>> ELSE IF c = 7832 THEN
            <<119,778>> ELSE IF c = 7833 THEN <<121,778>> ELSE IF c = 7834
            THEN <<97,702>> ELSE <<c>> ELSE IF c < 7850 THEN IF c < 7844 THEN
            IF c < 7841 THEN IF c = 7835 THEN <<115,775>> ELSE IF c = 7840
            THEN <<65,803>> ELSE <<c>> ELSE IF c = 7841 THEN <<97,803>> ELSE
            IF c = 7842 THEN <<65,777>> ELSE IF c = 7843 THEN <<97,777>> ELSE
            <<c>> ELSE IF c < 7847 THEN IF c = 7844 THEN <<65,770,769>> ELSE
            IF c = 7845 THEN <<97,770,769>> ELSE IF c = 7846 THEN
            <<65,770,768>> ELSE <<c>> ELSE IF c = 7847 THEN <<97,770,768>>
            ELSE IF c = 7848 THEN <<65,770,777>> ELSE IF c = 7849 THEN
            <<97,770,777>> ELSE <<c>> ELSE IF c < 7856 THEN IF c < 7853 THEN
            IF c = 7850 THEN <<65,770,771>> ELSE IF c = 7851 THEN
            <<97,770,771>> ELSE IF c = 7852 THEN <<65,803,770>> ELSE <<c>>
            ELSE IF c = 7853 THEN <<97,803,770>> ELSE IF c = 7854 THEN
            <<65,774,769>> ELSE IF c = 7855 THEN <<97,774,769>> ELSE <<c>>
            ELSE IF c < 7859 THEN IF c = 7856 THEN <<65,774,768>> ELSE IF c =
            7857 THEN <<97,774,768>> ELSE IF c = 7858 THEN <<65,774,777>> ELSE
            <<c>> ELSE IF c = 7859 THEN <<97,774,777>> ELSE IF c = 7860 THEN
            <<65,774,771>> ELSE IF c = 7861 THEN <<97,774,771>> ELSE <<c>>
            ELSE IF c < 7884 THEN IF c < 7873 THEN IF c < 7867 THEN IF c <
            7864 THEN IF c = 7862 THEN <<65,803,774>> ELSE IF c = 7863 THEN
            <<97,803,774>> ELSE <<c>> ELSE IF c = 7864 THEN <<69,803>> ELSE IF
            c = 7865 THEN <<101,803>> ELSE IF c = 7866 THEN <<69,777>> ELSE
            <<c>> ELSE IF c < 7870 THEN IF c = 7867 THEN <<101,777>> ELSE IF c
            = 7868 THEN <<69,771>> ELSE IF c = 7869 THEN <<101,771>> ELSE
            <<c>> ELSE IF c = 7870 THEN <<69,770,769>> ELSE IF c = 7871 THEN
            <<101,770,769>> ELSE IF c = 7872 THEN <<69,770,768>> ELSE <<c>>
            ELSE IF c < 7878 THEN IF c < 7875 THEN IF c = 7873 THEN
            <<101,770,768>> ELSE IF c = 7874 THEN <<69,770,777>> ELSE <<c>>
            ELSE IF c = 7875 THEN <<101,770,777>> ELSE IF c = 7876 THEN
            <<69,770,771>> ELSE IF c = 7877 THEN <<101,770,771>> ELSE <<c>>
            ELSE IF c < 7881 THEN IF c = 7878 THEN <<69,803,770>> ELSE IF c =
            7879 THEN <<101,803,770>> ELSE IF c = 7880 THEN <<73,777>> ELSE
            <<c>> ELSE IF c = 7881 THEN <<105,777>> ELSE IF c = 7882 THEN
            <<73,803>> ELSE IF c = 7883 THEN <<105,803>> ELSE <<c>> ELSE IF c
            < 7895 THEN IF c < 7889 THEN IF c < 7886 THEN IF c = 7884 THEN
            <<79,803>> ELSE IF c = 7885 THEN <<111,803>> ELSE <<c>> ELSE IF c
            = 7886 THEN <<79,777>> ELSE IF c = 7887 THEN <<111,777>> ELSE IF c
            = 7888 THEN <<79,770,769>> ELSE <<c>> ELSE IF c < 7892 THEN IF c =
            7889 THEN <<111,770,769>> ELSE IF c = 7890 THEN <<79,770,768>>
            ELSE IF c = 7891 THEN <<111,770,768>> ELSE <<c>> ELSE IF c = 7892
            THEN <<79,770,777>> ELSE IF c = 7893 THEN <<111,770,777>> ELSE IF
            c = 7894 THEN <<79,770,771>> ELSE <<c>> ELSE IF c < 7901 THEN IF c
            < 7898 THEN IF c = 7895 THEN <<111,770,771>> ELSE IF c = 7896 THEN
            <<79,803,770>> ELSE IF c = 7897 THEN <<111,803,770>> ELSE <<c>>
            ELSE IF c = 7898 THEN <<79,795,769>> ELSE IF c = 7899 THEN
            <<111,795,769>> ELSE IF c = 7900 THEN <<79,795,768>> ELSE <<c>>
            ELSE IF c < 7904 THEN IF c = 7901 THEN <<111,795,768>> ELSE IF c =
            7902 THEN <<79,795,777>> ELSE IF c = 7903 THEN <<111,795,777>>
            ELSE <<c>> ELSE IF c = 7904 THEN <<79,795,771>> ELSE IF c = 7905
            THEN <<111,795,771>> ELSE IF c = 7906 THEN <<79,795,803>> ELSE
            <<c>> ELSE IF c < 7960 THEN IF c < 7929 THEN IF c < 7918 THEN IF c
            < 7912 THEN IF c < 7909 THEN IF c = 7907 THEN <<111,795,803>> ELSE
            IF c = 7908 THEN <<85,803>> ELSE <<c>> ELSE IF c = 7909 THEN
            <<117,803>> ELSE IF c = 7910 THEN <<85,777>> ELSE IF c = 7911 THEN
            <<117,777>> ELSE <<c>> ELSE IF c < 7915 THEN IF c = 7912 THEN
            <<85,795,769>> ELSE IF c = 7913 THEN <<117,795,769>> ELSE IF c =
            7914 THEN <<85,795,768>> ELSE <<c>> ELSE IF c = 7915 THEN
            <<117,795,768>> ELSE IF c = 7916 THEN <<85,795,777>> ELSE IF c =
            7917 THEN <<117,795,777>> ELSE <<c>> ELSE IF c < 7923 THEN IF c <
            7920 THEN IF c = 7918 THEN <<85,795,771>> ELSE IF c = 7919 THEN
            <<117,795,771>> ELSE <<c>> ELSE IF c = 7920 THEN <<85,795,803>>
            ELSE IF c = 7921 THEN <<117,795,803>> ELSE IF c = 7922 THEN
            <<89,768>> ELSE <<c>> ELSE IF c < 7926 THEN IF c = 7923 THEN
            <<121,768>> ELSE IF c = 7924 THEN <<89,803>> ELSE IF c = 7925 THEN
            <<121,803>> ELSE <<c>> ELSE IF c = 7926 THEN <<89,777>> ELSE IF c
            = 7927 THEN <<121,777>> ELSE IF c = 7928 THEN <<89,771>> ELSE
            <<c>> ELSE IF c < 7946 THEN IF c < 7940 THEN IF c < 7937 THEN IF c
            = 7929 THEN <<121,771>> ELSE IF c = 7936 THEN <<945,787>> ELSE
            <<c>> ELSE IF c = 7937 THEN <<945,788>> ELSE IF c = 7938 THEN
            <<945,787,768>> ELSE IF c = 7939 THEN <<945,788,768>> ELSE <<c>>
            ELSE IF c < 7943 THEN IF c = 7940 THEN <<945,787,769>> ELSE IF c =
            7941 THEN <<945,788,769>> ELSE IF c = 7942 THEN <<945,787,834>>
            ELSE <<c>> ELSE IF c = 7943 THEN <<945,788,834>> ELSE IF c = 7944
            THEN <<913,787>> ELSE IF c = 7945 THEN <<913,788>> ELSE <<c>> ELSE
            IF c < 7952 THEN IF c < 7949 THEN IF c = 7946 THEN <<913,787,768>>
            ELSE IF c = 7947 THEN <<913,788,768>> ELSE IF c = 7948 THEN
            <<913,787,769>> ELSE <<c>> ELSE IF c = 7949 THEN <<913,788,769>>
            ELSE IF c = 7950 THEN <<913,787,834>> ELSE IF c = 7951 THEN
            <<913,788,834>> ELSE <<c>> ELSE IF c < 7955 THEN IF c = 7952 THEN
            <<949,787>> ELSE IF c = 7953 THEN <<949,788>> ELSE IF c = 7954
            THEN <<949,787,768>> ELSE <<c>> ELSE IF c = 7955 THEN
            <<949,788,768>> ELSE IF c = 7956 THEN <<949,787,769>> ELSE IF c =
            7957 THEN <<949,788,769>> ELSE <<c>> ELSE IF c < 7985 THEN IF c <
            7973 THEN IF c < 7965 THEN IF c < 7962 THEN IF c = 7960 THEN
            <<917,787>> ELSE IF c = 7961 THEN <<917,788>> ELSE <<c>> ELSE IF c
            = 7962 THEN <<917,787,768>> ELSE IF c = 7963 THEN <<917,788,768>>
            ELSE IF c = 7964 THEN <<917,787,769>> ELSE <<c>> ELSE IF c < 7970
            THEN IF c = 7965 THEN <<917,788,769>> ELSE IF c = 7968 THEN
            <<951,787>> ELSE IF c = 7969 THEN <<951,788>> ELSE <<c>> ELSE IF c
            = 7970 THEN <<951,787,768>> ELSE IF c = 7971 THEN <<951,788,768>>
            ELSE IF c = 7972 THEN <<951,787,769>> ELSE <<c>> ELSE IF c < 7979
            THEN IF c < 7976 THEN IF c = 7973 THEN <<951,788,769>> ELSE IF c =
            7974 THEN <<951,787,834>> ELSE IF c = 7975 THEN <<951,788,834>>
            ELSE <<c>> ELSE IF c = 7976 THEN <<919,787>> ELSE IF c = 7977 THEN
            <<919,788>> ELSE IF c = 7978 THEN <<919,787,768>> ELSE <<c>> ELSE
            IF c < 7982 THEN IF c = 7979 THEN <<919,788,768>> ELSE IF c = 7980
            THEN <<919,787,769>> ELSE IF c = 7981 THEN <<919,788,769>> ELSE
            <<c>> ELSE IF c = 7982 THEN <<919,787,834>> ELSE IF c = 7983 THEN
            <<919,788,834>> ELSE IF c = 7984 THEN <<953,787>> ELSE <<c>> ELSE
            IF c < 7996 THEN IF c < 7990 THEN IF c < 7987 THEN IF c = 7985
            THEN <<953,788>> ELSE IF c = 7986 THEN <<953,787,768>> ELSE <<c>>
            ELSE IF c = 7987 THEN <<953,788,768>> ELSE IF c = 7988 THEN
            <<953,787,769>> ELSE IF c = 7989 THEN <<953,788,769>> ELSE <<c>>
            ELSE IF c < 7993 THEN IF c = 7990 THEN <<953,787,834>> ELSE IF c =
            7991 THEN <<953,788,834>> ELSE IF c = 7992 THEN <<921,787>> ELSE
            <<c>> ELSE IF c = 7993 THEN <<921,788>> ELSE IF c = 7994 THEN
            <<921,787,768>> ELSE IF c = 7995 THEN <<921,788,768>> ELSE <<c>>
            ELSE IF c < 8002 THEN IF c < 7999 THEN IF c = 7996 THEN
            <<921,787,769>> ELSE IF c = 7997 THEN <<921,788,769>> ELSE IF c =
            7998 THEN <<921,787,834>> ELSE <<c>> ELSE IF c = 7999 THEN
            <<921,788,834>> ELSE IF c = 8000 THEN <<959,787>> ELSE IF c = 8001
            THEN <<959,788>> ELSE <<c>> ELSE IF c < 8005 THEN IF c = 8002 THEN
            <<959,787,768>> ELSE IF c = 8003 THEN <<959,788,768>> ELSE IF c =
            8004 THEN <<959,787,769>> ELSE <<c>> ELSE IF c = 8005 THEN
            <<959,788,769>> ELSE IF c = 8008 THEN <<927,787>> ELSE IF c = 8009
            THEN <<927,788>> ELSE <<c>> ELSE IF c < 8108 THEN IF c < 8061 THEN
            IF c < 8038 THEN IF c < 8023 THEN IF c < 8017 THEN IF c < 8012
            THEN IF c = 8010 THEN <<927,787,768>> ELSE IF c = 8011 THEN
            <<927,788,768>> ELSE <<c>> ELSE IF c = 8012 THEN <<927,787,769>>
            ELSE IF c = 8013 THEN <<927,788,769>> ELSE IF c = 8016 THEN
            <<965,787>> ELSE <<c>> ELSE IF c < 8020 THEN IF c = 8017 THEN
            <<965,788>> ELSE IF c = 8018 THEN <<965,787,768>> ELSE IF c = 8019
            THEN <<965,788,768>> ELSE <<c>> ELSE IF c = 8020 THEN
            <<965,787,769>> ELSE IF c = 8021 THEN <<965,788,769>> ELSE IF c =
            8022 THEN <<965,787,834>> ELSE <<c>> ELSE IF c < 8032 THEN IF c <
            8027 THEN IF c = 8023 THEN <<965,788,834>> ELSE IF c = 8025 THEN
            <<933,788>> ELSE <<c>> ELSE IF c = 8027 THEN <<933,788,768>> ELSE
            IF c = 8029 THEN <<933,788,769>> ELSE IF c = 8031 THEN
            <<933,788,834>> ELSE <<c>> ELSE IF c < 8035 THEN IF c = 8032 THEN
            <<969,787>> ELSE IF c = 8033 THEN <<969,788>> ELSE IF c = 8034
            THEN <<969,787,768>> ELSE <<c>> ELSE IF c = 8035 THEN
            <<969,788,768>> ELSE IF c = 8036 THEN <<969,787,769>> ELSE IF c =
            8037 THEN <<969,788,769>> ELSE <<c>> ELSE IF c < 8049 THEN IF c <
            8043 THEN IF c < 8040 THEN IF c = 8038 THEN <<969,787,834>> ELSE
            IF c = 8039 THEN <<969,788,834>> ELSE <<c>> ELSE IF c = 8040 THEN
            <<937,787>> ELSE IF c = 8041 THEN <<937,788>> ELSE IF c = 8042
            THEN <<937,787,768>> ELSE <<c>> ELSE IF c < 8046 THEN IF c = 8043
            THEN <<937,788,768>> ELSE IF c = 8044 THEN <<937,787,769>> ELSE IF
            c = 8045 THEN <<937,788,769>> ELSE <<c>> ELSE IF c = 8046 THEN
            <<937,787,834>> ELSE IF c = 8047 THEN <<937,788,834>> ELSE IF c =
            8048 THEN <<945,768>> ELSE <<c>> ELSE IF c < 8055 THEN IF c < 8052
            THEN IF c = 8049 THEN <<945,769>> ELSE IF c = 8050 THEN
            <<949,768>> ELSE IF c = 8051 THEN <<949,769>> ELSE <<c>> ELSE IF c
            = 8052 THEN <<951,768>> ELSE IF c = 8053 THEN <<951,769>> ELSE IF
            c = 8054 THEN <<953,768>> ELSE <<c>> ELSE IF c < 8058 THEN IF c =
            8055 THEN <<953,769>> ELSE IF c = 8056 THEN <<959,768>> ELSE IF c
            = 8057 THEN <<959,769>> ELSE <<c>> ELSE IF c = 8058 THEN
            <<965,768>> ELSE IF c = 8059 THEN <<965,769>> ELSE IF c = 8060
            THEN <<969,768>> ELSE <<c>> ELSE IF c < 8085 THEN IF c < 8074 THEN
            IF c < 8068 THEN IF c < 8065 THEN IF c = 8061 THEN <<969,769>>
            ELSE IF c = 8064 THEN <<945,787,837>> ELSE <<c>> ELSE IF c = 8065
            THEN <<945,788,837>> ELSE IF c = 8066 THEN <<945,787,768,837>>
            ELSE IF c = 8067 THEN <<945,788,768,837>> ELSE <<c>> ELSE IF c <
            8071 THEN IF c = 8068 THEN <<945,787,769,837>> ELSE IF c = 8069
            THEN <<945,788,769,837>> ELSE IF c = 8070 THEN <<945,787,834,837>>
            ELSE <<c>> ELSE IF c = 8071 THEN <<945,788,834,837>> ELSE IF c =
            8072 THEN <<913,787,837>> ELSE IF c = 8073 THEN <<913,788,837>>
            ELSE <<c>> ELSE IF c < 8079 THEN IF c < 8076 THEN IF c = 8074 THEN
            <<913,787,768,837>> ELSE IF c = 8075 THEN <<913,788,768,837>> ELSE
            <<c>> ELSE IF c = 8076 THEN <<913,787,769,837>> ELSE IF c = 8077
            THEN <<913,788,769,837>> ELSE IF c = 8078 THEN <<913,787,834,837>>
            ELSE <<c>> ELSE IF c < 8082 THEN IF c = 8079 THEN
            <<913,788,834,837>> ELSE IF c = 8080 THEN <<951,787,837>> ELSE IF
            c = 8081 THEN <<951,788,837>> ELSE <<c>> ELSE IF c = 8082 THEN
            <<951,787,768,837>> ELSE IF c = 8083 THEN <<951,788,768,837>> ELSE
            IF c = 8084 THEN <<951,787,769,837>> ELSE <<c>> ELSE IF c < 8096
            THEN IF c < 8090 THEN IF c < 8087 THEN IF c = 8085 THEN
            <<951,788,769,837>> ELSE IF c = 8086 THEN <<951,787,834,837>> ELSE
            <<c>> ELSE IF c = 8087 THEN <<951,788,834,837>> ELSE IF c = 8088
            THEN <<919,787,837>> ELSE IF c = 8089 THEN <<919,788,837>> ELSE
            <<c>> ELSE IF c < 8093 THEN IF c = 8090 THEN <<919,787,768,837>>
            ELSE IF c = 8091 THEN <<919,788,768,837>> ELSE IF c = 8092 THEN
            <<919,787,769,837>> ELSE <<c>> ELSE IF c = 8093 THEN
            <<919,788,769,837>> ELSE IF c = 8094 THEN <<919,787,834,837>> ELSE
            IF c = 8095 THEN <<919,788,834,837>> ELSE <<c>> ELSE IF c < 8102
            THEN IF c < 8099 THEN IF c = 8096 THEN <<969,787,837>> ELSE IF c =
            8097 THEN <<969,788,837>> ELSE IF c = 8098 THEN
            <<969,787,768,837>> ELSE <<c>> ELSE IF c = 8099 THEN
            <<969,788,768,837>> ELSE IF c = 8100 THEN <<969,787,769,837>> ELSE
            IF c = 8101 THEN <<969,788,769,837>> ELSE <<c>> ELSE IF c < 8105
            THEN IF c = 8102 THEN <<969,787,834,837>> ELSE IF c = 8103 THEN
            <<969,788,834,837>> ELSE IF c = 8104 THEN <<937,787,837>> ELSE
            <<c>> ELSE IF c = 8105 THEN <<937,788,837>> ELSE IF c = 8106 THEN
            <<937,787,768,837>> ELSE IF c = 8107 THEN <<937,788,768,837>> ELSE
            <<c>> ELSE IF c < 8158 THEN IF c < 8131 THEN IF c < 8120 THEN IF c
            < 8113 THEN IF c < 8110 THEN IF c = 8108 THEN <<937,787,769,837>>
            ELSE IF c = 8109 THEN <<937,788,769,837>> ELSE <<c>> ELSE IF c =
            8110 THEN <<937,787,834,837>> ELSE IF c = 8111 THEN
            <<937,788,834,837>> ELSE IF c = 8112 THEN <<945,774>> ELSE <<c>>
            ELSE IF c < 8116 THEN IF c = 8113 THEN <<945,772>> ELSE IF c =
            8114 THEN <<945,768,837>> ELSE IF c = 8115 THEN <<945,837>> ELSE
            <<c>> ELSE IF c = 8116 THEN <<945,769,837>> ELSE IF c = 8118 THEN
            <<945,834>> ELSE IF c = 8119 THEN <<945,834,837>> ELSE <<c>> ELSE
            IF c < 8125 THEN IF c < 8122 THEN IF c = 8120 THEN <<913,774>>
            ELSE IF c = 8121 THEN <<913,772>> ELSE <<c>> ELSE IF c = 8122 THEN
            <<913,768>> ELSE IF c = 8123 THEN <<913,769>> ELSE IF c = 8124
            THEN <<913,837>> ELSE <<c>> ELSE IF c < 8128 THEN IF c = 8125 THEN
            <<32,787>> ELSE IF c = 8126 THEN <<953>> ELSE IF c = 8127 THEN
            <<32,787>> ELSE <<c>> ELSE IF c = 8128 THEN <<32,834>> ELSE IF c =
            8129 THEN <<32,776,834>> ELSE IF c = 8130 THEN <<951,768,837>>
            ELSE <<c>> ELSE IF c < 8143 THEN IF c < 8137 THEN IF c < 8134 THEN
            IF c = 8131 THEN <<951,837>> ELSE IF c = 8132 THEN <<951,769,837>>
            ELSE <<c>> ELSE IF c = 8134 THEN <<951,834>> ELSE IF c = 8135 THEN
            <<951,834,837>> ELSE IF c = 8136 THEN <<917,768>> ELSE <<c>> ELSE
            IF c < 8140 THEN IF c = 8137 THEN <<917,769>> ELSE IF c = 8138
            THEN <<919,768>> ELSE IF c = 8139 THEN <<919,769>> ELSE <<c>> ELSE
            IF c = 8140 THEN <<919,837>> ELSE IF c = 8141 THEN <<32,787,768>>
            ELSE IF c = 8142 THEN <<32,787,769>> ELSE <<c>> ELSE IF c < 8151
            THEN IF c < 8146 THEN IF c = 8143 THEN <<32,787,834>> ELSE IF c =
            8144 THEN <<953,774>> ELSE IF c = 8145 THEN <<953,772>> ELSE <<c>>
            ELSE IF c = 8146 THEN <<953,776,768>> ELSE IF c = 8147 THEN
            <<953,776,769>> ELSE IF c = 8150 THEN <<953,834>> ELSE <<c>> ELSE
            IF c < 8154 THEN IF c = 8151 THEN <<953,776,834>> ELSE IF c = 8152
            THEN <<921,774>> ELSE IF c = 8153 THEN <<921,772>> ELSE <<c>> ELSE
            IF c = 8154 THEN <<921,768>> ELSE IF c = 8155 THEN <<921,769>>
            ELSE IF c = 8157 THEN <<32,788,768>> ELSE <<c>> ELSE IF c < 8184
            THEN IF c < 8169 THEN IF c < 8163 THEN IF c < 8160 THEN IF c =
            8158 THEN <<32,788,769>> ELSE IF c = 8159 THEN <<32,788,834>> ELSE
            <<c>> ELSE IF c = 8160 THEN <<965,774>> ELSE IF c = 8161 THEN
            <<965,772>> ELSE IF c = 8162 THEN <<965,776,768>> ELSE <<c>> ELSE
            IF c < 8166 THEN IF c = 8163 THEN <<965,776,769>> ELSE IF c = 8164
            THEN <<961,787>> ELSE IF c = 8165 THEN <<961,788>> ELSE <<c>> ELSE
            IF c = 8166 THEN <<965,834>> ELSE IF c = 8167 THEN <<965,776,834>>
            ELSE IF c = 8168 THEN <<933,774>> ELSE <<c>> ELSE IF c < 8175 THEN
            IF c < 8172 THEN IF c = 8169 THEN <<933,772>> ELSE IF c = 8170
            THEN <<933,768>> ELSE IF c = 8171 THEN <<933,769>> ELSE <<c>> ELSE
            IF c = 8172 THEN <<929,788>> ELSE IF c = 8173 THEN <<32,776,768>>
            ELSE IF c = 8174 THEN <<32,776,769>> ELSE <<c>> ELSE IF c < 8180
            THEN IF c = 8175 THEN <<96>> ELSE IF c = 8178 THEN <<969,768,837>>
            ELSE IF c = 8179 THEN <<969,837>> ELSE <<c>> ELSE IF c = 8180 THEN
            <<969,769,837>> ELSE IF c = 8182 THEN <<969,834>> ELSE IF c = 8183
            THEN <<969,834,837>> ELSE <<c>> ELSE IF c < 8196 THEN IF c < 8189
            THEN IF c < 8186 THEN IF c = 8184 THEN <<927,768>> ELSE IF c =
            8185 THEN <<927,769>> ELSE <<c>> ELSE IF c = 8186 THEN <<937,768>>
            ELSE IF c = 8187 THEN <<937,769>> ELSE IF c = 8188 THEN
            <<937,837>> ELSE <<c>> ELSE IF c < 8193 THEN IF c = 8189 THEN
            <<32,769>> ELSE IF c = 8190 THEN <<32,788>> ELSE IF c = 8192 THEN
            <<32>> ELSE <<c>> ELSE IF c = 8193 THEN <<32>> ELSE IF c = 8194
            THEN <<32>> ELSE IF c = 8195 THEN <<32>> ELSE <<c>> ELSE IF c <
            8202 THEN IF c < 8199 THEN IF c = 8196 THEN <<32>> ELSE IF c =
            8197 THEN <<32>> ELSE IF c = 8198 THEN <<32>> ELSE <<c>> ELSE IF c
            = 8199 THEN <<32>> ELSE IF c = 8200 THEN <<32>> ELSE IF c = 8201
            THEN <<32>> ELSE <<c>> ELSE IF c < 8228 THEN IF c = 8202 THEN
            <<32>> ELSE IF c = 8209 THEN <<8208>> ELSE IF c = 8215 THEN
            <<32,819>> ELSE <<c>> ELSE IF c = 8228 THEN <<46>> ELSE IF c =
            8229 THEN <<46,46>> ELSE IF c = 8230 THEN <<46,46,46>> ELSE <<c>>
            ELSE IF c < 8813 THEN IF c < 8495 THEN IF c < 8340 THEN IF c <
            8316 THEN IF c < 8287 THEN IF c < 8252 THEN IF c < 8244 THEN IF c
            = 8239 THEN <<32>> ELSE IF c = 8243 THEN <<8242,8242>> ELSE <<c>>
            ELSE IF c = 8244 THEN <<8242,8242,8242>> ELSE IF c = 8246 THEN
            <<8245,8245>> ELSE IF c = 8247 THEN <<8245,8245,8245>> ELSE <<c>>
            ELSE IF c < 8264 THEN IF c = 8252 THEN <<33,33>> ELSE IF c = 8254
            THEN <<32,773>> ELSE IF c = 8263 THEN <<63,63>> ELSE <<c>> ELSE IF
            c = 8264 THEN <<63,33>> ELSE IF c = 8265 THEN <<33,63>> ELSE IF c
            = 8279 THEN <<8242,8242,8242,8242>> ELSE <<c>> ELSE IF c < 8310
            THEN IF c < 8305 THEN IF c = 8287 THEN <<32>> ELSE IF c = 8304
            THEN <<48>> ELSE <<c>> ELSE IF c = 8305 THEN <<105>> ELSE IF c =
            8308 THEN <<52>> ELSE IF c = 8309 THEN <<53>> ELSE <<c>> ELSE IF c
            < 8313 THEN IF c = 8310 THEN <<54>> ELSE IF c = 8311 THEN <<55>>
            ELSE IF c = 8312 THEN <<56>> ELSE <<c>> ELSE IF c = 8313 THEN
            <<57>> ELSE IF c = 8314 THEN <<43>> ELSE IF c = 8315 THEN <<8722>>
            ELSE <<c>> ELSE IF c < 8327 THEN IF c < 8321 THEN IF c < 8318 THEN
            IF c = 8316 THEN <<61>> ELSE IF c = 8317 THEN <<40>> ELSE <<c>>
            ELSE IF c = 8318 THEN <<41>> ELSE IF c = 8319 THEN <<110>> ELSE IF
            c = 8320 THEN <<48>> ELSE <<c>> ELSE IF c < 8324 THEN IF c = 8321
            THEN <<49>> ELSE IF c = 8322 THEN <<50>> ELSE IF c = 8323 THEN
            <<51>> ELSE <<c>> ELSE IF c = 8324 THEN <<52>> ELSE IF c = 8325
            THEN <<53>> ELSE IF c = 8326 THEN <<54>> ELSE <<c>> ELSE IF c <
            8333 THEN IF c < 8330 THEN IF c = 8327 THEN <<55>> ELSE IF c =
            8328 THEN <<56>> ELSE IF c = 8329 THEN <<57>> ELSE <<c>> ELSE IF c
            = 8330 THEN <<43>> ELSE IF c = 8331 THEN <<8722>> ELSE IF c = 8332
            THEN <<61>> ELSE <<c>> ELSE IF c < 8337 THEN IF c = 8333 THEN
            <<40>> ELSE IF c = 8334 THEN <<41>> ELSE IF c = 8336 THEN <<97>>
            ELSE <<c>> ELSE IF c = 8337 THEN <<101>> ELSE IF c = 8338 THEN
            <<111>> ELSE IF c = 8339 THEN <<120>> ELSE <<c>> ELSE IF c < 8462
            THEN IF c < 8449 THEN IF c < 8345 THEN IF c < 8342 THEN IF c =
            8340 THEN <<601>> ELSE IF c = 8341 THEN <<104>> ELSE <<c>> ELSE IF
            c = 8342 THEN <<107>> ELSE IF c = 8343 THEN <<108>> ELSE IF c =
            8344 THEN <<109>> ELSE <<c>> ELSE IF c < 8348 THEN IF c = 8345
            THEN <<110>> ELSE IF c = 8346 THEN <<112>> ELSE IF c = 8347 THEN
            <<115>> ELSE <<c>> ELSE IF c = 8348 THEN <<116>> ELSE IF c = 8360
            THEN <<82,115>> ELSE IF c = 8448 THEN <<97,47,99>> ELSE <<c>> ELSE
            IF c < 8455 THEN IF c < 8451 THEN IF c = 8449 THEN <<97,47,115>>
            ELSE IF c = 8450 THEN <<67>> ELSE <<c>> ELSE IF c = 8451 THEN
            <<176,67>> ELSE IF c = 8453 THEN <<99,47,111>> ELSE IF c = 8454
            THEN <<99,47,117>> ELSE <<c>> ELSE IF c < 8459 THEN IF c = 8455
            THEN <<400>> ELSE IF c = 8457 THEN <<176,70>> ELSE IF c = 8458
            THEN <<103>> ELSE <<c>> ELSE IF c = 8459 THEN <<72>> ELSE IF c =
            8460 THEN <<72>> ELSE IF c = 8461 THEN <<72>> ELSE <<c>> ELSE IF c
            < 8476 THEN IF c < 8467 THEN IF c < 8464 THEN IF c = 8462 THEN
            <<104>> ELSE IF c = 8463 THEN <<295>> ELSE <<c>> ELSE IF c = 8464
            THEN <<73>> ELSE IF c = 8465 THEN <<73>> ELSE IF c = 8466 THEN
            <<76>> ELSE <<c>> ELSE IF c < 8473 THEN IF c = 8467 THEN <<108>>
            ELSE IF c = 8469 THEN <<78>> ELSE IF c = 8470 THEN <<78,111>> ELSE
            <<c>> ELSE IF c = 8473 THEN <<80>> ELSE IF c = 8474 THEN <<81>>
            ELSE IF c = 8475 THEN <<82>> ELSE <<c>> ELSE IF c < 8486 THEN IF c
            < 8481 THEN IF c = 8476 THEN <<82>> ELSE IF c = 8477 THEN <<82>>
            ELSE IF c = 8480 THEN <<83,77>> ELSE <<c>> ELSE IF c = 8481 THEN
            <<84,69,76>> ELSE IF c = 8482 THEN <<84,77>> ELSE IF c = 8484 THEN
            <<90>> ELSE <<c>> ELSE IF c < 8491 THEN IF c = 8486 THEN <<937>>
            ELSE IF c = 8488 THEN <<90>> ELSE IF c = 8490 THEN <<75>> ELSE
            <<c>> ELSE IF c = 8491 THEN <<65,778>> ELSE IF c = 8492 THEN
            <<66>> ELSE IF c = 8493 THEN <<67>> ELSE <<c>> ELSE IF c < 8552
            THEN IF c < 8529 THEN IF c < 8508 THEN IF c < 8501 THEN IF c <
            8497 THEN IF c = 8495 THEN <<101>> ELSE IF c = 8496 THEN <<69>>
            ELSE <<c>> ELSE IF c = 8497 THEN <<70>> ELSE IF c = 8499 THEN
            <<77>> ELSE IF c = 8500 THEN <<111>> ELSE <<c>> ELSE IF c < 8504
            THEN IF c = 8501 THEN <<1488>> ELSE IF c = 8502 THEN <<1489>> ELSE
            IF c = 8503 THEN <<1490>> ELSE <<c>> ELSE IF c = 8504 THEN
            <<1491>> ELSE IF c = 8505 THEN <<105>> ELSE IF c = 8507 THEN
            <<70,65,88>> ELSE <<c>> ELSE IF c < 8517 THEN IF c < 8510 THEN IF
            c = 8508 THEN <<960>> ELSE IF c = 8509 THEN <<947>> ELSE <<c>>
            ELSE IF c = 8510 THEN <<915>> ELSE IF c = 8511 THEN <<928>> ELSE
            IF c = 8512 THEN <<8721>> ELSE <<c>> ELSE IF c < 8520 THEN IF c =
            8517 THEN <<68>> ELSE IF c = 8518 THEN <<100>> ELSE IF c = 8519
            THEN <<101>> ELSE <<c>> ELSE IF c = 8520 THEN <<105>> ELSE IF c =
            8521 THEN <<106>> ELSE IF c = 8528 THEN <<49,8260,55>> ELSE <<c>>
            ELSE IF c < 8540 THEN IF c < 8534 THEN IF c < 8531 THEN IF c =
            8529 THEN <<49,8260,57>> ELSE IF c = 8530 THEN <<49,8260,49,48>>
            ELSE <<c>> ELSE IF c = 8531 THEN <<49,8260,51>> ELSE IF c = 8532
            THEN <<50,8260,51>> ELSE IF c = 8533 THEN <<49,8260,53>> ELSE
            <<c>> ELSE IF c < 8537 THEN IF c = 8534 THEN <<50,8260,53>> ELSE
            IF c = 8535 THEN <<51,8260,53>> ELSE IF c = 8536 THEN
            <<52,8260,53>> ELSE <<c>> ELSE IF c = 8537 THEN <<49,8260,54>>
            ELSE IF c = 8538 THEN <<53,8260,54>> ELSE IF c = 8539 THEN
            <<49,8260,56>> ELSE <<c>> ELSE IF c < 8546 THEN IF c < 8543 THEN
            IF c = 8540 THEN <<51,8260,56>> ELSE IF c = 8541 THEN
            <<53,8260,56>> ELSE IF c = 8542 THEN <<55,8260,56>> ELSE <<c>>
            ELSE IF c = 8543 THEN <<49,8260>> ELSE IF c = 8544 THEN <<73>>
            ELSE IF c = 8545 THEN <<73,73>> ELSE <<c>> ELSE IF c < 8549 THEN
            IF c = 8546 THEN <<73,73,73>> ELSE IF c = 8547 THEN <<73,86>> ELSE
            IF c = 8548 THEN <<86>> ELSE <<c>> ELSE IF c = 8549 THEN <<86,73>>
            ELSE IF c = 8550 THEN <<86,73,73>> ELSE IF c = 8551 THEN
            <<86,73,73,73>> ELSE <<c>> ELSE IF c < 8575 THEN IF c < 8563 THEN
            IF c < 8557 THEN IF c < 8554 THEN IF c = 8552 THEN <<73,88>> ELSE
            IF c = 8553 THEN <<88>> ELSE <<c>> ELSE IF c = 8554 THEN <<88,73>>
            ELSE IF c = 8555 THEN <<88,73,73>> ELSE IF c = 8556 THEN <<76>>
            ELSE <<c>> ELSE IF c < 8560 THEN IF c = 8557 THEN <<67>> ELSE IF c
            = 8558 THEN <<68>> ELSE IF c = 8559 THEN <<77>> ELSE <<c>> ELSE IF
            c = 8560 THEN <<105>> ELSE IF c = 8561 THEN <<105,105>> ELSE IF c
            = 8562 THEN <<105,105,105>> ELSE <<c>> ELSE IF c < 8569 THEN IF c
            < 8566 THEN IF c = 8563 THEN <<105,118>> ELSE IF c = 8564 THEN
            <<118>> ELSE IF c = 8565 THEN <<118,105>> ELSE <<c>> ELSE IF c =
            8566 THEN <<118,105,105>> ELSE IF c = 8567 THEN
            <<118,105,105,105>> ELSE IF c = 8568 THEN <<105,120>> ELSE <<c>>
            ELSE IF c < 8572 THEN IF c = 8569 THEN <<120>> ELSE IF c = 8570
            THEN <<120,105>> ELSE IF c = 8571 THEN <<120,105,105>> ELSE <<c>>
            ELSE IF c = 8572 THEN <<108>> ELSE IF c = 8573 THEN <<99>> ELSE IF
            c = 8574 THEN <<100>> ELSE <<c>> ELSE IF c < 8740 THEN IF c < 8653
            THEN IF c < 8602 THEN IF c = 8575 THEN <<109>> ELSE IF c = 8585
            THEN <<48,8260,51>> ELSE <<c>> ELSE IF c = 8602 THEN <<8592,824>>
            ELSE IF c = 8603 THEN <<8594,824>> ELSE IF c = 8622 THEN
            <<8596,824>> ELSE <<c>> ELSE IF c < 8708 THEN IF c = 8653 THEN
            <<8656,824>> ELSE IF c = 8654 THEN <<8660,824>> ELSE IF c = 8655
            THEN <<8658,824>> ELSE <<c>> ELSE IF c = 8708 THEN <<8707,824>>
            ELSE IF c = 8713 THEN <<8712,824>> ELSE IF c = 8716 THEN
            <<8715,824>> ELSE <<c>> ELSE IF c < 8769 THEN IF c < 8749 THEN IF
            c = 8740 THEN <<8739,824>> ELSE IF c = 8742 THEN <<8741,824>> ELSE
            IF c = 8748 THEN <<8747,8747>> ELSE <<c>> ELSE IF c = 8749 THEN
            <<8747,8747,8747>> ELSE IF c = 8751 THEN <<8750,8750>> ELSE IF c =
            8752 THEN <<8750,8750,8750>> ELSE <<c>> ELSE IF c < 8777 THEN IF c
            = 8769 THEN <<8764,824>> ELSE IF c = 8772 THEN <<8771,824>> ELSE
            IF c = 8775 THEN <<8773,824>> ELSE <<c>> ELSE IF c = 8777 THEN
            <<8776,824>> ELSE IF c = 8800 THEN <<61,824>> ELSE IF c = 8802
            THEN <<8801,824>> ELSE <<c>> ELSE IF c < 9373 THEN IF c < 9328
            THEN IF c < 8931 THEN IF c < 8836 THEN IF c < 8820 THEN IF c <
            8815 THEN IF c = 8813 THEN <<8781,824>> ELSE IF c = 8814 THEN
            <<60,824>> ELSE <<c>> ELSE IF c = 8815 THEN <<62,824>> ELSE IF c =
            8816 THEN <<8804,824>> ELSE IF c = 8817 THEN <<8805,824>> ELSE
            <<c>> ELSE IF c < 8825 THEN IF c = 8820 THEN <<8818,824>> ELSE IF
            c = 8821 THEN <<8819,824>> ELSE IF c = 8824 THEN <<8822,824>> ELSE
            <<c>> ELSE IF c = 8825 THEN <<8823,824>> ELSE IF c = 8832 THEN
            <<8826,824>> ELSE IF c = 8833 THEN <<8827,824>> ELSE <<c>> ELSE IF
            c < 8877 THEN IF c < 8840 THEN IF c = 8836 THEN <<8834,824>> ELSE
            IF c = 8837 THEN <<8835,824>> ELSE <<c>> ELSE IF c = 8840 THEN
            <<8838,824>> ELSE IF c = 8841 THEN <<8839,824>> ELSE IF c = 8876
            THEN <<8866,824>> ELSE <<c>> ELSE IF c < 8928 THEN IF c = 8877
            THEN <<8872,824>> ELSE IF c = 8878 THEN <<8873,824>> ELSE IF c =
            8879 THEN <<8875,824>> ELSE <<c>> ELSE IF c = 8928 THEN
            <<8828,824>> ELSE IF c = 8929 THEN <<8829,824>> ELSE IF c = 8930
            THEN <<8849,824>> ELSE <<c>> ELSE IF c < 9316 THEN IF c < 9001
            THEN IF c < 8939 THEN IF c = 8931 THEN <<8850,824>> ELSE IF c =
            8938 THEN <<8882,824>> ELSE <<c>> ELSE IF c = 8939 THEN
            <<8883,824>> ELSE IF c = 8940 THEN <<8884,824>> ELSE IF c = 8941
            THEN <<8885,824>> ELSE <<c>> ELSE IF c < 9313 THEN IF c = 9001
            THEN <<12296>> ELSE IF c = 9002 THEN <<12297>> ELSE IF c = 9312
            THEN <<49>> ELSE <<c>> ELSE IF c = 9313 THEN <<50>> ELSE IF c =
            9314 THEN <<51>> ELSE IF c = 9315 THEN <<52>> ELSE <<c>> ELSE IF c
            < 9322 THEN IF c < 9319 THEN IF c = 9316 THEN <<53>> ELSE IF c =
            9317 THEN <<54>> ELSE IF c = 9318 THEN <<55>> ELSE <<c>> ELSE IF c
            = 9319 THEN <<56>> ELSE IF c = 9320 THEN <<57>> ELSE IF c = 9321
            THEN <<49,48>> ELSE <<c>> ELSE IF c < 9325 THEN IF c = 9322 THEN
            <<49,49>> ELSE IF c = 9323 THEN <<49,50>> ELSE IF c = 9324 THEN
            <<49,51>> ELSE <<c>> ELSE IF c = 9325 THEN <<49,52>> ELSE IF c =
            9326 THEN <<49,53>> ELSE IF c = 9327 THEN <<49,54>> ELSE <<c>>
            ELSE IF c < 9350 THEN IF c < 9339 THEN IF c < 9333 THEN IF c <
            9330 THEN IF c = 9328 THEN <<49,55>> ELSE IF c = 9329 THEN
            <<49,56>> ELSE <<c>> ELSE IF c = 9330 THEN <<49,57>> ELSE IF c =
            9331 THEN <<50,48>> ELSE IF c = 9332 THEN <<40,49,41>> ELSE <<c>>
            ELSE IF c < 9336 THEN IF c = 9333 THEN <<40,50,41>> ELSE IF c =
            9334 THEN <<40,51,41>> ELSE IF c = 9335 THEN <<40,52,41>> ELSE
            <<c>> ELSE IF c = 9336 THEN <<40,53,41>> ELSE IF c = 9337 THEN
            <<40,54,41>> ELSE IF c = 9338 THEN <<40,55,41>> ELSE <<c>> ELSE IF
            c < 9344 THEN IF c < 9341 THEN IF c = 9339 THEN <<40,56,41>> ELSE
            IF c = 9340 THEN <<40,57,41>> ELSE <<c>> ELSE IF c = 9341 THEN
            <<40,49,48,41>> ELSE IF c = 9342 THEN <<40,49,49,41>> ELSE IF c =
            9343 THEN <<40,49,50,41>> ELSE <<c>> ELSE IF c < 9347 THEN IF c =
            9344 THEN <<40,49,51,41>> ELSE IF c = 9345 THEN <<40,49,52,41>>
            ELSE IF c = 9346 THEN <<40,49,53,41>> ELSE <<c>> ELSE IF c = 9347
            THEN <<40,49,54,41>> ELSE IF c = 9348 THEN <<40,49,55,41>> ELSE IF
            c = 9349 THEN <<40,49,56,41>> ELSE <<c>> ELSE IF c < 9361 THEN IF
            c < 9355 THEN IF c < 9352 THEN IF c = 9350 THEN <<40,49,57,41>>
            ELSE IF c = 9351 THEN <<40,50,48,41>> ELSE <<c>> ELSE IF c = 9352
            THEN <<49,46>> ELSE IF c = 9353 THEN <<50,46>> ELSE IF c = 9354
            THEN <<51,46>> ELSE <<c>> ELSE IF c < 9358 THEN IF c = 9355 THEN
            <<52,46>> ELSE IF c = 9356 THEN <<53,46>> ELSE IF c = 9357 THEN
            <<54,46>> ELSE <<c>> ELSE IF c = 9358 THEN <<55,46>> ELSE IF c =
            9359 THEN <<56,46>> ELSE IF c = 9360 THEN <<57,46>> ELSE <<c>>
            ELSE IF c < 9367 THEN IF c < 9364 THEN IF c = 9361 THEN
            <<49,48,46>> ELSE IF c = 9362 THEN <<49,49,46>> ELSE IF c = 9363
            THEN <<49,50,46>> ELSE <<c>> ELSE IF c = 9364 THEN <<49,51,46>>
            ELSE IF c = 9365 THEN <<49,52,46>> ELSE IF c = 9366 THEN
            <<49,53,46>> ELSE <<c>> ELSE IF c < 9370 THEN IF c = 9367 THEN
            <<49,54,46>> ELSE IF c = 9368 THEN <<49,55,46>> ELSE IF c = 9369
            THEN <<49,56,46>> ELSE <<c>> ELSE IF c = 9370 THEN <<49,57,46>>
            ELSE IF c = 9371 THEN <<50,48,46>> ELSE IF c = 9372 THEN
            <<40,97,41>> ELSE <<c>> ELSE IF c < 9418 THEN IF c < 9395 THEN IF
            c < 9384 THEN IF c < 9378 THEN IF c < 9375 THEN IF c = 9373 THEN
            <<40,98,41>> ELSE IF c = 9374 THEN <<40,99,41>> ELSE <<c>> ELSE IF
            c = 9375 THEN <<40,100,41>> ELSE IF c = 9376 THEN <<40,101,41>>
            ELSE IF c = 9377 THEN <<40,102,41>> ELSE <<c>> ELSE IF c < 9381
            THEN IF c = 9378 THEN <<40,103,41>> ELSE IF c = 9379 THEN
            <<40,104,41>> ELSE IF c = 9380 THEN <<40,105,41>> ELSE <<c>> ELSE
            IF c = 9381 THEN <<40,106,41>> ELSE IF c = 9382 THEN <<40,107,41>>
            ELSE IF c = 9383 THEN <<40,108,41>> ELSE <<c>> ELSE IF c < 9389
            THEN IF c < 9386 THEN IF c = 9384 THEN <<40,109,41>> ELSE IF c =
            9385 THEN <<40,110,41>> ELSE <<c>> ELSE IF c = 9386 THEN
            <<40,111,41>> ELSE IF c = 9387 THEN <<40,112,41>> ELSE IF c = 9388
            THEN <<40,113,41>> ELSE <<c>> ELSE IF c < 9392 THEN IF c = 9389
            THEN <<40,114,41>> ELSE IF c = 9390 THEN <<40,115,41>> ELSE IF c =
            9391 THEN <<40,116,41>> ELSE <<c>> ELSE IF c = 9392 THEN
            <<40,117,41>> ELSE IF c = 9393 THEN <<40,118,41>> ELSE IF c = 9394
            THEN <<40,119,41>> ELSE <<c>> ELSE IF c < 9406 THEN IF c < 9400
            THEN IF c < 9397 THEN IF c = 9395 THEN <<40,120,41>> ELSE IF c =
            9396 THEN <<40,121,41>> ELSE <<c>> ELSE IF c = 9397 THEN
            <<40,122,41>> ELSE IF c = 9398 THEN <<65>> ELSE IF c = 9399 THEN
            <<66>> ELSE <<c>> ELSE IF c < 9403 THEN IF c = 9400 THEN <<67>>
            ELSE IF c = 9401 THEN <<68>> ELSE IF c = 9402 THEN <<69>> ELSE
            <<c>> ELSE IF c = 9403 THEN <<70>> ELSE IF c = 9404 THEN <<71>>
            ELSE IF c = 9405 THEN <<72>> ELSE <<c>> ELSE IF c < 9412 THEN IF c
            < 9409 THEN IF c = 9406 THEN <<73>> ELSE IF c = 9407 THEN <<74>>
            ELSE IF c = 9408 THEN <<75>> ELSE <<c>> ELSE IF c = 9409 THEN
            <<76>> ELSE IF c = 9410 THEN <<77>> ELSE IF c = 9411 THEN <<78>>
            ELSE <<c>> ELSE IF c < 9415 THEN IF c = 9412 THEN <<79>> ELSE IF c
            = 9413 THEN <<80>> ELSE IF c = 9414 THEN <<81>> ELSE <<c>> ELSE IF
            c = 9415 THEN <<82>> ELSE IF c = 9416 THEN <<83>> ELSE IF c = 9417
            THEN <<84>> ELSE <<c>> ELSE IF c < 9441 THEN IF c < 9429 THEN IF c
            < 9423 THEN IF c < 9420 THEN IF c = 9418 THEN <<85>> ELSE IF c =
            9419 THEN <<86>> ELSE <<c>> ELSE IF c = 9420 THEN <<87>> ELSE IF c
            = 9421 THEN <<88>> ELSE IF c = 9422 THEN <<89>> ELSE <<c>> ELSE IF
            c < 9426 THEN IF c = 9423 THEN <<90>> ELSE IF c = 9424 THEN <<97>>
            ELSE IF c = 9425 THEN <<98>> ELSE <<c>> ELSE IF c = 9426 THEN
            <<99>> ELSE IF c = 9427 THEN <<100>> ELSE IF c = 9428 THEN <<101>>
            ELSE <<c>> ELSE IF c < 9435 THEN IF c < 9432 THEN IF c = 9429 THEN
            <<102>> ELSE IF c = 9430 THEN <<103>> ELSE IF c = 9431 THEN
            <<104>> ELSE <<c>> ELSE IF c = 9432 THEN <<105>> ELSE IF c = 9433
            THEN <<106>> ELSE IF c = 9434 THEN <<107>> ELSE <<c>> ELSE IF c <
            9438 THEN IF c = 9435 THEN <<108>> ELSE IF c = 9436 THEN <<109>>
            ELSE IF c = 9437 THEN <<110>> ELSE <<c>> ELSE IF c = 9438 THEN
            <<111>> ELSE IF c = 9439 THEN <<112>> ELSE IF c = 9440 THEN
            <<113>> ELSE <<c>> ELSE IF c < 10868 THEN IF c < 9446 THEN IF c <
            9443 THEN IF c = 9441 THEN <<114>> ELSE IF c = 9442 THEN <<115>>
            ELSE <<c>> ELSE IF c = 9443 THEN <<116>> ELSE IF c = 9444 THEN
            <<117>> ELSE IF c = 9445 THEN <<118>> ELSE <<c>> ELSE IF c < 9449
            THEN IF c = 9446 THEN <<119>> ELSE IF c = 9447 THEN <<120>> ELSE
            IF c = 9448 THEN <<121>> ELSE <<c>> ELSE IF c = 9449 THEN <<122>>
            ELSE IF c = 9450 THEN <<48>> ELSE IF c = 10764 THEN
            <<8747,8747,8747,8747>> ELSE <<c>> ELSE IF c < 11631 THEN IF c <
            10972 THEN IF c = 10868 THEN <<58,58,61>> ELSE IF c = 10869 THEN
            <<61,61>> ELSE IF c = 10870 THEN <<61,61,61>> ELSE <<c>> ELSE IF c
            = 10972 THEN <<10973,824>> ELSE IF c = 11388 THEN <<106>> ELSE IF
            c = 11389 THEN <<86>> ELSE <<c>> ELSE IF c < 12032 THEN IF c =
            11631 THEN <<11617>> ELSE IF c = 11935 THEN <<27597>> ELSE IF c =
            12019 THEN <<40863>> ELSE <<c>> ELSE IF c = 12032 THEN <<19968>>
            ELSE IF c = 12033 THEN <<20008>> ELSE IF c = 12034 THEN <<20022>>
            ELSE <<c>> ELSE IF c < 13148 THEN IF c < 12677 THEN IF c < 12216
            THEN IF c < 12125 THEN IF c < 12080 THEN IF c < 12057 THEN IF c <
            12046 THEN IF c < 12040 THEN IF c < 12037 THEN IF c = 12035 THEN
            <<20031>> ELSE IF c = 12036 THEN <<20057>> ELSE <<c>> ELSE IF c =
            12037 THEN <<20101>> ELSE IF c = 12038 THEN <<20108>> ELSE IF c =
            12039 THEN <<20128>> ELSE <<c>> ELSE IF c < 12043 THEN IF c =
            12040 THEN <<20154>> ELSE IF c = 12041 THEN <<20799>> ELSE IF c =
            12042 THEN <<20837>> ELSE <<c>> ELSE IF c = 12043 THEN <<20843>>
            ELSE IF c = 12044 THEN <<20866>> ELSE IF c = 12045 THEN <<20886>>
            ELSE <<c>> ELSE IF c < 12051 THEN IF c < 12048 THEN IF c = 12046
            THEN <<20907>> ELSE IF c = 12047 THEN <<20960>> ELSE <<c>> ELSE IF
            c = 12048 THEN <<20981>> ELSE IF c = 12049 THEN <<20992>> ELSE IF
            c = 12050 THEN <<21147>> ELSE <<c>> ELSE IF c < 12054 THEN IF c =
            12051 THEN <<21241>> ELSE IF c = 12052 THEN <<21269>> ELSE IF c =
            12053 THEN <<21274>> ELSE <<c>> ELSE IF c = 12054 THEN <<21304>>
            ELSE IF c = 12055 THEN <<21313>> ELSE IF c = 12056 THEN <<21340>>
            ELSE <<c>> ELSE IF c < 12068 THEN IF c < 12062 THEN IF c < 12059
            THEN IF c = 12057 THEN <<21353>> ELSE IF c = 12058 THEN <<21378>>
            ELSE <<c>> ELSE IF c = 12059 THEN <<21430>> ELSE IF c = 12060 THEN
            <<21448>> ELSE IF c = 12061 THEN <<21475>> ELSE <<c>> ELSE IF c <
            12065 THEN IF c = 12062 THEN <<22231>> ELSE IF c = 12063 THEN
            <<22303>> ELSE IF c = 12064 THEN <<22763>> ELSE <<c>> ELSE IF c =
            12065 THEN <<22786>> ELSE IF c = 12066 THEN <<22794>> ELSE IF c =
            12067 THEN <<22805>> ELSE <<c>> ELSE IF c < 12074 THEN IF c <
            12071 THEN IF c = 12068 THEN <<22823>> ELSE IF c = 12069 THEN
            <<22899>> ELSE IF c = 12070 THEN <<23376>> ELSE <<c>> ELSE IF c =
            12071 THEN <<23424>> ELSE IF c = 12072 THEN <<23544>> ELSE IF c =
            12073 THEN <<23567>> ELSE <<c>> ELSE IF c < 12077 THEN IF c =
            12074 THEN <<23586>> ELSE IF c = 12075 THEN <<23608>> ELSE IF c =
            12076 THEN <<23662>> ELSE <<c>> ELSE IF c = 12077 THEN <<23665>>
            ELSE IF c = 12078 THEN <<24027>> ELSE IF c = 12079 THEN <<24037>>
            ELSE <<c>> ELSE IF c < 12102 THEN IF c < 12091 THEN IF c < 12085
            THEN IF c < 12082 THEN IF c = 12080 THEN <<24049>> ELSE IF c =
            12081 THEN <<24062>> ELSE <<c>> ELSE IF c = 12082 THEN <<24178>>
            ELSE IF c = 12083 THEN <<24186>> ELSE IF c = 12084 THEN <<24191>>
            ELSE <<c>> ELSE IF c < 12088 THEN IF c = 12085 THEN <<24308>> ELSE
            IF c = 12086 THEN <<24318>> ELSE IF c = 12087 THEN <<24331>> ELSE
            <<c>> ELSE IF c = 12088 THEN <<24339>> ELSE IF c = 12089 THEN
            <<24400>> ELSE IF c = 12090 THEN <<24417>> ELSE <<c>> ELSE IF c <
            12096 THEN IF c < 12093 THEN IF c = 12091 THEN <<24435>> ELSE IF c
            = 12092 THEN <<24515>> ELSE <<c>> ELSE IF c = 12093 THEN <<25096>>
            ELSE IF c = 12094 THEN <<25142>> ELSE IF c = 12095 THEN <<25163>>
            ELSE <<c>> ELSE IF c < 12099 THEN IF c = 12096 THEN <<25903>> ELSE
            IF c = 12097 THEN <<25908>> ELSE IF c = 12098 THEN <<25991>> ELSE
            <<c>> ELSE IF c = 12099 THEN <<26007>> ELSE IF c = 12100 THEN
            <<26020>> ELSE IF c = 12101 THEN <<26041>> ELSE <<c>> ELSE IF c <
            12113 THEN IF c < 12107 THEN IF c < 12104 THEN IF c = 12102 THEN
            <<26080>> ELSE IF c = 12103 THEN <<26085>> ELSE <<c>> ELSE IF c =
            12104 THEN <<26352>> ELSE IF c = 12105 THEN <<26376>> ELSE IF c =
            12106 THEN <<26408>> ELSE <<c>> ELSE IF c < 12110 THEN IF c =
            12107 THEN <<27424>> ELSE IF c = 12108 THEN <<27490>> ELSE IF c =
            12109 THEN <<27513>> ELSE <<c>> ELSE IF c = 12110 THEN <<27571>>
            ELSE IF c = 12111 THEN <<27595>> ELSE IF c = 12112 THEN <<27604>>
            ELSE <<c>> ELSE IF c < 12119 THEN IF c < 12116 THEN IF c = 12113
            THEN <<27611>> ELSE IF c = 12114 THEN <<27663>> ELSE IF c = 12115
            THEN <<27668>> ELSE <<c>> ELSE IF c = 12116 THEN <<27700>> ELSE IF
            c = 12117 THEN <<28779>> ELSE IF c = 12118 THEN <<29226>> ELSE
            <<c>> ELSE IF c < 12122 THEN IF c = 12119 THEN <<29238>> ELSE IF c
            = 12120 THEN <<29243>> ELSE IF c = 12121 THEN <<29247>> ELSE <<c>>
            ELSE IF c = 12122 THEN <<29255>> ELSE IF c = 12123 THEN <<29273>>
            ELSE IF c = 12124 THEN <<29275>> ELSE <<c>> ELSE IF c < 12170 THEN
            IF c < 12147 THEN IF c < 12136 THEN IF c < 12130 THEN IF c < 12127
            THEN IF c = 12125 THEN <<29356>> ELSE IF c = 12126 THEN <<29572>>
            ELSE <<c>> ELSE IF c = 12127 THEN <<29577>> ELSE IF c = 12128 THEN
            <<29916>> ELSE IF c = 12129 THEN <<29926>> ELSE <<c>> ELSE IF c <
            12133 THEN IF c = 12130 THEN <<29976>> ELSE IF c = 12131 THEN
            <<29983>> ELSE IF c = 12132 THEN <<29992>> ELSE <<c>> ELSE IF c =
            12133 THEN <<30000>> ELSE IF c = 12134 THEN <<30091>> ELSE IF c =
            12135 THEN <<30098>> ELSE <<c>> ELSE IF c < 12141 THEN IF c <
            12138 THEN IF c = 12136 THEN <<30326>> ELSE IF c = 12137 THEN
            <<30333>> ELSE <<c>> ELSE IF c = 12138 THEN <<30382>> ELSE IF c =
            12139 THEN <<30399>> ELSE IF c = 12140 THEN <<30446>> ELSE <<c>>
            ELSE IF c < 12144 THEN IF c = 12141 THEN <<30683>> ELSE IF c =
            12142 THEN <<30690>> ELSE IF c = 12143 THEN <<30707>> ELSE <<c>>
            ELSE IF c = 12144 THEN <<31034>> ELSE IF c = 12145 THEN <<31160>>
            ELSE IF c = 12146 THEN <<31166>> ELSE <<c>> ELSE IF c < 12158 THEN
            IF c < 12152 THEN IF c < 12149 THEN IF c = 12147 THEN <<31348>>
            ELSE IF c = 12148 THEN <<31435>> ELSE <<c>> ELSE IF c = 12149 THEN
            <<31481>> ELSE IF c = 12150 THEN <<31859>> ELSE IF c = 12151 THEN
            <<31992>> ELSE <<c>> ELSE IF c < 12155 THEN IF c = 12152 THEN
            <<32566>> ELSE IF c = 12153 THEN <<32593>> ELSE IF c = 12154 THEN
            <<32650>> ELSE <<c>> ELSE IF c = 12155 THEN <<32701>> ELSE IF c =
            12156 THEN <<32769>> ELSE IF c = 12157 THEN <<32780>> ELSE <<c>>
            ELSE IF c < 12164 THEN IF c < 12161 THEN IF c = 12158 THEN
            <<32786>> ELSE IF c = 12159 THEN <<32819>> ELSE IF c = 12160 THEN
            <<32895>> ELSE <<c>> ELSE IF c = 12161 THEN <<32905>> ELSE IF c =
            12162 THEN <<33251>> ELSE IF c = 12163 THEN <<33258>> ELSE <<c>>
            ELSE IF c < 12167 THEN IF c = 12164 THEN <<33267>> ELSE IF c =
            12165 THEN <<33276>> ELSE IF c = 12166 THEN <<33292>> ELSE <<c>>
            ELSE IF c = 12167 THEN <<33307>> ELSE IF c = 12168 THEN <<33311>>
            ELSE IF c = 12169 THEN <<33390>> ELSE <<c>> ELSE IF c < 12193 THEN
            IF c < 12181 THEN IF c < 12175 THEN IF c < 12172 THEN IF c = 12170
            THEN <<33394>> ELSE IF c = 12171 THEN <<33400>> ELSE <<c>> ELSE IF
            c = 12172 THEN <<34381>> ELSE IF c = 12173 THEN <<34411>> ELSE IF
            c = 12174 THEN <<34880>> ELSE <<c>> ELSE IF c < 12178 THEN IF c =
            12175 THEN <<34892>> ELSE IF c = 12176 THEN <<34915>> ELSE IF c =
            12177 THEN <<35198>> ELSE <<c>> ELSE IF c = 12178 THEN <<35211>>
            ELSE IF c = 12179 THEN <<35282>> ELSE IF c = 12180 THEN <<35328>>
            ELSE <<c>> ELSE IF c < 12187 THEN IF c < 12184 THEN IF c = 12181
            THEN <<35895>> ELSE IF c = 12182 THEN <<35910>> ELSE IF c = 12183
            THEN <<35925>> ELSE <<c>> ELSE IF c = 12184 THEN <<35960>> ELSE IF
            c = 12185 THEN <<35997>> ELSE IF c = 12186 THEN <<36196>> ELSE
            <<c>> ELSE IF c < 12190 THEN IF c = 12187 THEN <<36208>> ELSE IF c
            = 12188 THEN <<36275>> ELSE IF c = 12189 THEN <<36523>> ELSE <<c>>
            ELSE IF c = 12190 THEN <<36554>> ELSE IF c = 12191 THEN <<36763>>
            ELSE IF c = 12192 THEN <<36784>> ELSE <<c>> ELSE IF c < 12204 THEN
            IF c < 12198 THEN IF c < 12195 THEN IF c = 12193 THEN <<36789>>
            ELSE IF c = 12194 THEN <<37009>> ELSE <<c>> ELSE IF c = 12195 THEN
            <<37193>> ELSE IF c = 12196 THEN <<37318>> ELSE IF c = 12197 THEN
            <<37324>> ELSE <<c>> ELSE IF c < 12201 THEN IF c = 12198 THEN
            <<37329>> ELSE IF c = 12199 THEN <<38263>> ELSE IF c = 12200 THEN
            <<38272>> ELSE <<c>> ELSE IF c = 12201 THEN <<38428>> ELSE IF c =
            12202 THEN <<38582>> ELSE IF c = 12203 THEN <<38585>> ELSE <<c>>
            ELSE IF c < 12210 THEN IF c < 12207 THEN IF c = 12204 THEN
            <<38632>> ELSE IF c = 12205 THEN <<38737>> ELSE IF c = 12206 THEN
            <<38750>> ELSE <<c>> ELSE IF c = 12207 THEN <<38754>> ELSE IF c =
            12208 THEN <<38761>> ELSE IF c = 12209 THEN <<38859>> ELSE <<c>>
            ELSE IF c < 12213 THEN IF c = 12210 THEN <<38893>> ELSE IF c =
            12211 THEN <<38899>> ELSE IF c = 12212 THEN <<38913>> ELSE <<c>>
            ELSE IF c = 12213 THEN <<39080>> ELSE IF c = 12214 THEN <<39131>>
            ELSE IF c = 12215 THEN <<39135>> ELSE <<c>> ELSE IF c < 12532 THEN
            IF c < 12384 THEN IF c < 12238 THEN IF c < 12227 THEN IF c < 12221
            THEN IF c < 12218 THEN IF c = 12216 THEN <<39318>> ELSE IF c =
            12217 THEN <<39321>> ELSE <<c>> ELSE IF c = 12218 THEN <<39340>>
            ELSE IF c = 12219 THEN <<39592>> ELSE IF c = 12220 THEN <<39640>>
            ELSE <<c>> ELSE IF c < 12224 THEN IF c = 12221 THEN <<39647>> ELSE
            IF c = 12222 THEN <<39717>> ELSE IF c = 12223 THEN <<39727>> ELSE
            <<c>> ELSE IF c = 12224 THEN <<39730>> ELSE IF c = 12225 THEN
            <<39740>> ELSE IF c = 12226 THEN <<39770>> ELSE <<c>> ELSE IF c <
            12232 THEN IF c < 12229 THEN IF c = 12227 THEN <<40165>> ELSE IF c
            = 12228 THEN <<40565>> ELSE <<c>> ELSE IF c = 12229 THEN <<40575>>
            ELSE IF c = 12230 THEN <<40613>> ELSE IF c = 12231 THEN <<40635>>
            ELSE <<c>> ELSE IF c < 12235 THEN IF c = 12232 THEN <<40643>> ELSE
            IF c = 12233 THEN <<40653>> ELSE IF c = 12234 THEN <<40657>> ELSE
            <<c>> ELSE IF c = 12235 THEN <<40697>> ELSE IF c = 12236 THEN
            <<40701>> ELSE IF c = 12237 THEN <<40718>> ELSE <<c>> ELSE IF c <
            12345 THEN IF c < 12243 THEN IF c < 12240 THEN IF c = 12238 THEN
            <<40723>> ELSE IF c = 12239 THEN <<40736>> ELSE <<c>> ELSE IF c =
            12240 THEN <<40763>> ELSE IF c = 12241 THEN <<40778>> ELSE IF c =
            12242 THEN <<40786>> ELSE <<c>> ELSE IF c < 12288 THEN IF c =
            12243 THEN <<40845>> ELSE IF c = 12244 THEN <<40860>> ELSE IF c =
            12245 THEN <<40864>> ELSE <<c>> ELSE IF c = 12288 THEN <<32>> ELSE
            IF c = 12342 THEN <<12306>> ELSE IF c = 12344 THEN <<21313>> ELSE
            <<c>> ELSE IF c < 12372 THEN IF c < 12366 THEN IF c = 12345 THEN
            <<21316>> ELSE IF c = 12346 THEN <<21317>> ELSE IF c = 12364 THEN
            <<12363,12441>> ELSE <<c>> ELSE IF c = 12366 THEN <<12365,12441>>
            ELSE IF c = 12368 THEN <<12367,12441>> ELSE IF c = 12370 THEN
            <<12369,12441>> ELSE <<c>> ELSE IF c < 12378 THEN IF c = 12372
            THEN <<12371,12441>> ELSE IF c = 12374 THEN <<12373,12441>> ELSE
            IF c = 12376 THEN <<12375,12441>> ELSE <<c>> ELSE IF c = 12378
            THEN <<12377,12441>> ELSE IF c = 12380 THEN <<12379,12441>> ELSE
            IF c = 12382 THEN <<12381,12441>> ELSE <<c>> ELSE IF c < 12464
            THEN IF c < 12409 THEN IF c < 12400 THEN IF c < 12389 THEN IF c =
            12384 THEN <<12383,12441>> ELSE IF c = 12386 THEN <<12385,12441>>
            ELSE <<c>> ELSE IF c = 12389 THEN <<12388,12441>> ELSE IF c =
            12391 THEN <<12390,12441>> ELSE IF c = 12393 THEN <<12392,12441>>
            ELSE <<c>> ELSE IF c < 12404 THEN IF c = 12400 THEN
            <<12399,12441>> ELSE IF c = 12401 THEN <<12399,12442>> ELSE IF c =
            12403 THEN <<12402,12441>> ELSE <<c>> ELSE IF c = 12404 THEN
            <<12402,12442>> ELSE IF c = 12406 THEN <<12405,12441>> ELSE IF c =
            12407 THEN <<12405,12442>> ELSE <<c>> ELSE IF c < 12443 THEN IF c
            < 12412 THEN IF c = 12409 THEN <<12408,12441>> ELSE IF c = 12410
            THEN <<12408,12442>> ELSE <<c>> ELSE IF c = 12412 THEN
            <<12411,12441>> ELSE IF c = 12413 THEN <<12411,12442>> ELSE IF c =
            12436 THEN <<12358,12441>> ELSE <<c>> ELSE IF c < 12447 THEN IF c
            = 12443 THEN <<32,12441>> ELSE IF c = 12444 THEN <<32,12442>> ELSE
            IF c = 12446 THEN <<12445,12441>> ELSE <<c>> ELSE IF c = 12447
            THEN <<12424,12426>> ELSE IF c = 12460 THEN <<12459,12441>> ELSE
            IF c = 12462 THEN <<12461,12441>> ELSE <<c>> ELSE IF c < 12487
            THEN IF c < 12474 THEN IF c < 12468 THEN IF c = 12464 THEN
            <<12463,12441>> ELSE IF c = 12466 THEN <<12465,12441>> ELSE <<c>>
            ELSE IF c = 12468 THEN <<12467,12441>> ELSE IF c = 12470 THEN
            <<12469,12441>> ELSE IF c = 12472 THEN <<12471,12441>> ELSE <<c>>
            ELSE IF c < 12480 THEN IF c = 12474 THEN <<12473,12441>> ELSE IF c
            = 12476 THEN <<12475,12441>> ELSE IF c = 12478 THEN
            <<12477,12441>> ELSE <<c>> ELSE IF c = 12480 THEN <<12479,12441>>
            ELSE IF c = 12482 THEN <<12481,12441>> ELSE IF c = 12485 THEN
            <<12484,12441>> ELSE <<c>> ELSE IF c < 12502 THEN IF c < 12497
            THEN IF c = 12487 THEN <<12486,12441>> ELSE IF c = 12489 THEN
            <<12488,12441>> ELSE IF c = 12496 THEN <<12495,12441>> ELSE <<c>>
            ELSE IF c = 12497 THEN <<12495,12442>> ELSE IF c = 12499 THEN
            <<12498,12441>> ELSE IF c = 12500 THEN <<12498,12442>> ELSE <<c>>
            ELSE IF c < 12506 THEN IF c = 12502 THEN <<12501,12441>> ELSE IF c
            = 12503 THEN <<12501,12442>> ELSE IF c = 12505 THEN
            <<12504,12441>> ELSE <<c>> ELSE IF c = 12506 THEN <<12504,12442>>
            ELSE IF c = 12508 THEN <<12507,12441>> ELSE IF c = 12509 THEN
            <<12507,12442>> ELSE <<c>> ELSE IF c < 12631 THEN IF c < 12608
            THEN IF c < 12597 THEN IF c < 12542 THEN IF c < 12536 THEN IF c =
            12532 THEN <<12454,12441>> ELSE IF c = 12535 THEN <<12527,12441>>
            ELSE <<c>> ELSE IF c = 12536 THEN <<12528,12441>> ELSE IF c =
            12537 THEN <<12529,12441>> ELSE IF c = 12538 THEN <<12530,12441>>
            ELSE <<c>> ELSE IF c < 12594 THEN IF c = 12542 THEN
            <<12541,12441>> ELSE IF c = 12543 THEN <<12467,12488>> ELSE IF c =
            12593 THEN <<4352>> ELSE <<c>> ELSE IF c = 12594 THEN <<4353>>
            ELSE IF c = 12595 THEN <<4522>> ELSE IF c = 12596 THEN <<4354>>
            ELSE <<c>> ELSE IF c < 12602 THEN IF c < 12599 THEN IF c = 12597
            THEN <<4524>> ELSE IF c = 12598 THEN <<4525>> ELSE <<c>> ELSE IF c
            = 12599 THEN <<4355>> ELSE IF c = 12600 THEN <<4356>> ELSE IF c =
            12601 THEN <<4357>> ELSE <<c>> ELSE IF c < 12605 THEN IF c = 12602
            THEN <<4528>> ELSE IF c = 12603 THEN <<4529>> ELSE IF c = 12604
            THEN <<4530>> ELSE <<c>> ELSE IF c = 12605 THEN <<4531>> ELSE IF c
            = 12606 THEN <<4532>> ELSE IF c = 12607 THEN <<4533>> ELSE <<c>>
            ELSE IF c < 12619 THEN IF c < 12613 THEN IF c < 12610 THEN IF c =
            12608 THEN <<4378>> ELSE IF c = 12609 THEN <<4358>> ELSE <<c>>
            ELSE IF c = 12610 THEN <<4359>> ELSE IF c = 12611 THEN <<4360>>
            ELSE IF c = 12612 THEN <<4385>> ELSE <<c>> ELSE IF c < 12616 THEN
            IF c = 12613 THEN <<4361>> ELSE IF c = 12614 THEN <<4362>> ELSE IF
            c = 12615 THEN <<4363>> ELSE <<c>> ELSE IF c = 12616 THEN <<4364>>
            ELSE IF c = 12617 THEN <<4365>> ELSE IF c = 12618 THEN <<4366>>
            ELSE <<c>> ELSE IF c < 12625 THEN IF c < 12622 THEN IF c = 12619
            THEN <<4367>> ELSE IF c = 12620 THEN <<4368>> ELSE IF c = 12621
            THEN <<4369>> ELSE <<c>> ELSE IF c = 12622 THEN <<4370>> ELSE IF c
            = 12623 THEN <<4449>> ELSE IF c = 12624 THEN <<4450>> ELSE <<c>>
            ELSE IF c < 12628 THEN IF c = 12625 THEN <<4451>> ELSE IF c =
            12626 THEN <<4452>> ELSE IF c = 12627 THEN <<4453>> ELSE <<c>>
            ELSE IF c = 12628 THEN <<4454>> ELSE IF c = 12629 THEN <<4455>>
            ELSE IF c = 12630 THEN <<4456>> ELSE <<c>> ELSE IF c < 12654 THEN
            IF c < 12642 THEN IF c < 12636 THEN IF c < 12633 THEN IF c = 12631
            THEN <<4457>> ELSE IF c = 12632 THEN <<4458>> ELSE <<c>> ELSE IF c
            = 12633 THEN <<4459>> ELSE IF c = 12634 THEN <<4460>> ELSE IF c =
            12635 THEN <<4461>> ELSE <<c>> ELSE IF c < 12639 THEN IF c = 12636
            THEN <<4462>> ELSE IF c = 12637 THEN <<4463>> ELSE IF c = 12638
            THEN <<4464>> ELSE <<c>> ELSE IF c = 12639 THEN <<4465>> ELSE IF c
            = 12640 THEN <<4466>> ELSE IF c = 12641 THEN <<4467>> ELSE <<c>>
            ELSE IF c < 12648 THEN IF c < 12645 THEN IF c = 12642 THEN
            <<4468>> ELSE IF c = 12643 THEN <<4469>> ELSE IF c = 12644 THEN
            <<4448>> ELSE <<c>> ELSE IF c = 12645 THEN <<4372>> ELSE IF c =
            12646 THEN <<4373>> ELSE IF c = 12647 THEN <<4551>> ELSE <<c>>
            ELSE IF c < 12651 THEN IF c = 12648 THEN <<4552>> ELSE IF c =
            12649 THEN <<4556>> ELSE IF c = 12650 THEN <<4558>> ELSE <<c>>
            ELSE IF c = 12651 THEN <<4563>> ELSE IF c = 12652 THEN <<4567>>
            ELSE IF c = 12653 THEN <<4569>> ELSE <<c>> ELSE IF c < 12665 THEN
            IF c < 12659 THEN IF c < 12656 THEN IF c = 12654 THEN <<4380>>
            ELSE IF c = 12655 THEN <<4573>> ELSE <<c>> ELSE IF c = 12656 THEN
            <<4575>> ELSE IF c = 12657 THEN <<4381>> ELSE IF c = 12658 THEN
            <<4382>> ELSE <<c>> ELSE IF c < 12662 THEN IF c = 12659 THEN
            <<4384>> ELSE IF c = 12660 THEN <<4386>> ELSE IF c = 12661 THEN
            <<4387>> ELSE <<c>> ELSE IF c = 12662 THEN <<4391>> ELSE IF c =
            12663 THEN <<4393>> ELSE IF c = 12664 THEN <<4395>> ELSE <<c>>
            ELSE IF c < 12671 THEN IF c < 12668 THEN IF c = 12665 THEN
            <<4396>> ELSE IF c = 12666 THEN <<4397>> ELSE IF c = 12667 THEN
            <<4398>> ELSE <<c>> ELSE IF c = 12668 THEN <<4399>> ELSE IF c =
            12669 THEN <<4402>> ELSE IF c = 12670 THEN <<4406>> ELSE <<c>>
            ELSE IF c < 12674 THEN IF c = 12671 THEN <<4416>> ELSE IF c =
            12672 THEN <<4423>> ELSE IF c = 12673 THEN <<4428>> ELSE <<c>>
            ELSE IF c = 12674 THEN <<4593>> ELSE IF c = 12675 THEN <<4594>>
            ELSE IF c = 12676 THEN <<4439>> ELSE <<c>> ELSE IF c < 12967 THEN
            IF c < 12867 THEN IF c < 12821 THEN IF c < 12702 THEN IF c < 12691
            THEN IF c < 12682 THEN IF c < 12679 THEN IF c = 12677 THEN
            <<4440>> ELSE IF c = 12678 THEN <<4441>> ELSE <<c>> ELSE IF c =
            12679 THEN <<4484>> ELSE IF c = 12680 THEN <<4485>> ELSE IF c =
            12681 THEN <<4488>> ELSE <<c>> ELSE IF c < 12685 THEN IF c = 12682
            THEN <<4497>> ELSE IF c = 12683 THEN <<4498>> ELSE IF c = 12684
            THEN <<4500>> ELSE <<c>> ELSE IF c = 12685 THEN <<4510>> ELSE IF c
            = 12686 THEN <<4513>> ELSE IF c = 12690 THEN <<19968>> ELSE <<c>>
            ELSE IF c < 12696 THEN IF c < 12693 THEN IF c = 12691 THEN
            <<20108>> ELSE IF c = 12692 THEN <<19977>> ELSE <<c>> ELSE IF c =
            12693 THEN <<22235>> ELSE IF c = 12694 THEN <<19978>> ELSE IF c =
            12695 THEN <<20013>> ELSE <<c>> ELSE IF c < 12699 THEN IF c =
            12696 THEN <<19979>> ELSE IF c = 12697 THEN <<30002>> ELSE IF c =
            12698 THEN <<20057>> ELSE <<c>> ELSE IF c = 12699 THEN <<19993>>
            ELSE IF c = 12700 THEN <<19969>> ELSE IF c = 12701 THEN <<22825>>
            ELSE <<c>> ELSE IF c < 12809 THEN IF c < 12803 THEN IF c < 12800
            THEN IF c = 12702 THEN <<22320>> ELSE IF c = 12703 THEN <<20154>>
            ELSE <<c>> ELSE IF c = 12800 THEN <<40,4352,41>> ELSE IF c = 12801
            THEN <<40,4354,41>> ELSE IF c = 12802 THEN <<40,4355,41>> ELSE
            <<c>> ELSE IF c < 12806 THEN IF c = 12803 THEN <<40,4357,41>> ELSE
            IF c = 12804 THEN <<40,4358,41>> ELSE IF c = 12805 THEN
            <<40,4359,41>> ELSE <<c>> ELSE IF c = 12806 THEN <<40,4361,41>>
            ELSE IF c = 12807 THEN <<40,4363,41>> ELSE IF c = 12808 THEN
            <<40,4364,41>> ELSE <<c>> ELSE IF c < 12815 THEN IF c < 12812 THEN
            IF c = 12809 THEN <<40,4366,41>> ELSE IF c = 12810 THEN
            <<40,4367,41>> ELSE IF c = 12811 THEN <<40,4368,41>> ELSE <<c>>
            ELSE IF c = 12812 THEN <<40,4369,41>> ELSE IF c = 12813 THEN
            <<40,4370,41>> ELSE IF c = 12814 THEN <<40,4352,4449,41>> ELSE
            <<c>> ELSE IF c < 12818 THEN IF c = 12815 THEN <<40,4354,4449,41>>
            ELSE IF c = 12816 THEN <<40,4355,4449,41>> ELSE IF c = 12817 THEN
            <<40,4357,4449,41>> ELSE <<c>> ELSE IF c = 12818 THEN
            <<40,4358,4449,41>> ELSE IF c = 12819 THEN <<40,4359,4449,41>>
            ELSE IF c = 12820 THEN <<40,4361,4449,41>> ELSE <<c>> ELSE IF c <
            12844 THEN IF c < 12833 THEN IF c < 12826 THEN IF c < 12823 THEN
            IF c = 12821 THEN <<40,4363,4449,41>> ELSE IF c = 12822 THEN
            <<40,4364,4449,41>> ELSE <<c>> ELSE IF c = 12823 THEN
            <<40,4366,4449,41>> ELSE IF c = 12824 THEN <<40,4367,4449,41>>
            ELSE IF c = 12825 THEN <<40,4368,4449,41>> ELSE <<c>> ELSE IF c <
            12829 THEN IF c = 12826 THEN <<40,4369,4449,41>> ELSE IF c = 12827
            THEN <<40,4370,4449,41>> ELSE IF c = 12828 THEN
            <<40,4364,4462,41>> ELSE <<c>> ELSE IF c = 12829 THEN
            <<40,4363,4457,4364,4453,4523,41>> ELSE IF c = 12830 THEN
            <<40,4363,4457,4370,4462,41>> ELSE IF c = 12832 THEN
            <<40,19968,41>> ELSE <<c>> ELSE IF c < 12838 THEN IF c < 12835
            THEN IF c = 12833 THEN <<40,20108,41>> ELSE IF c = 12834 THEN
            <<40,19977,41>> ELSE <<c>> ELSE IF c = 12835 THEN <<40,22235,41>>
            ELSE IF c = 12836 THEN <<40,20116,41>> ELSE IF c = 12837 THEN
            <<40,20845,41>> ELSE <<c>> ELSE IF c < 12841 THEN IF c = 12838
            THEN <<40,19971,41>> ELSE IF c = 12839 THEN <<40,20843,41>> ELSE
            IF c = 12840 THEN <<40,20061,41>> ELSE <<c>> ELSE IF c = 12841
            THEN <<40,21313,41>> ELSE IF c = 12842 THEN <<40,26376,41>> ELSE
            IF c = 12843 THEN <<40,28779,41>> ELSE <<c>> ELSE IF c < 12855
            THEN IF c < 12849 THEN IF c < 12846 THEN IF c = 12844 THEN
            <<40,27700,41>> ELSE IF c = 12845 THEN <<40,26408,41>> ELSE <<c>>
            ELSE IF c = 12846 THEN <<40,37329,41>> ELSE IF c = 12847 THEN
            <<40,22303,41>> ELSE IF c = 12848 THEN <<40,26085,41>> ELSE <<c>>
            ELSE IF c < 12852 THEN IF c = 12849 THEN <<40,26666,41>> ELSE IF c
            = 12850 THEN <<40,26377,41>> ELSE IF c = 12851 THEN
            <<40,31038,41>> ELSE <<c>> ELSE IF c = 12852 THEN <<40,21517,41>>
            ELSE IF c = 12853 THEN <<40,29305,41>> ELSE IF c = 12854 THEN
            <<40,36001,41>> ELSE <<c>> ELSE IF c < 12861 THEN IF c < 12858
            THEN IF c = 12855 THEN <<40,31069,41>> ELSE IF c = 12856 THEN
            <<40,21172,41>> ELSE IF c = 12857 THEN <<40,20195,41>> ELSE <<c>>
            ELSE IF c = 12858 THEN <<40,21628,41>> ELSE IF c = 12859 THEN
            <<40,23398,41>> ELSE IF c = 12860 THEN <<40,30435,41>> ELSE <<c>>
            ELSE IF c < 12864 THEN IF c = 12861 THEN <<40,20225,41>> ELSE IF c
            = 12862 THEN <<40,36039,41>> ELSE IF c = 12863 THEN
            <<40,21332,41>> ELSE <<c>> ELSE IF c = 12864 THEN <<40,31085,41>>
            ELSE IF c = 12865 THEN <<40,20241,41>> ELSE IF c = 12866 THEN
            <<40,33258,41>> ELSE <<c>> ELSE IF c < 12920 THEN IF c < 12897
            THEN IF c < 12886 THEN IF c < 12880 THEN IF c < 12869 THEN IF c =
            12867 THEN <<40,33267,41>> ELSE IF c = 12868 THEN <<21839>> ELSE
            <<c>> ELSE IF c = 12869 THEN <<24188>> ELSE IF c = 12870 THEN
            <<25991>> ELSE IF c = 12871 THEN <<31631>> ELSE <<c>> ELSE IF c <
            12883 THEN IF c = 12880 THEN <<80,84,69>> ELSE IF c = 12881 THEN
            <<50,49>> ELSE IF c = 12882 THEN <<50,50>> ELSE <<c>> ELSE IF c =
            12883 THEN <<50,51>> ELSE IF c = 12884 THEN <<50,52>> ELSE IF c =
            12885 THEN <<50,53>> ELSE <<c>> ELSE IF c < 12891 THEN IF c <
            12888 THEN IF c = 12886 THEN <<50,54>> ELSE IF c = 12887 THEN
            <<50,55>> ELSE <<c>> ELSE IF c = 12888 THEN <<50,56>> ELSE IF c =
            12889 THEN <<50,57>> ELSE IF c = 12890 THEN <<51,48>> ELSE <<c>>
            ELSE IF c < 12894 THEN IF c = 12891 THEN <<51,49>> ELSE IF c =
            12892 THEN <<51,50>> ELSE IF c = 12893 THEN <<51,51>> ELSE <<c>>
            ELSE IF c = 12894 THEN <<51,52>> ELSE IF c = 12895 THEN <<51,53>>
            ELSE IF c = 12896 THEN <<4352>> ELSE <<c>> ELSE IF c < 12908 THEN
            IF c < 12902 THEN IF c < 12899 THEN IF c = 12897 THEN <<4354>>
            ELSE IF c = 12898 THEN <<4355>> ELSE <<c>> ELSE IF c = 12899 THEN
            <<4357>> ELSE IF c = 12900 THEN <<4358>> ELSE IF c = 12901 THEN
            <<4359>> ELSE <<c>> ELSE IF c < 12905 THEN IF c = 12902 THEN
            <<4361>> ELSE IF c = 12903 THEN <<4363>> ELSE IF c = 12904 THEN
            <<4364>> ELSE <<c>> ELSE IF c = 12905 THEN <<4366>> ELSE IF c =
            12906 THEN <<4367>> ELSE IF c = 12907 THEN <<4368>> ELSE <<c>>
            ELSE IF c < 12914 THEN IF c < 12911 THEN IF c = 12908 THEN
            <<4369>> ELSE IF c = 12909 THEN <<4370>> ELSE IF c = 12910 THEN
            <<4352,4449>> ELSE <<c>> ELSE IF c = 12911 THEN <<4354,4449>> ELSE
            IF c = 12912 THEN <<4355,4449>> ELSE IF c = 12913 THEN
            <<4357,4449>> ELSE <<c>> ELSE IF c < 12917 THEN IF c = 12914 THEN
            <<4358,4449>> ELSE IF c = 12915 THEN <<4359,4449>> ELSE IF c =
            12916 THEN <<4361,4449>> ELSE <<c>> ELSE IF c = 12917 THEN
            <<4363,4449>> ELSE IF c = 12918 THEN <<4364,4449>> ELSE IF c =
            12919 THEN <<4366,4449>> ELSE <<c>> ELSE IF c < 12944 THEN IF c <
            12932 THEN IF c < 12925 THEN IF c < 12922 THEN IF c = 12920 THEN
            <<4367,4449>> ELSE IF c = 12921 THEN <<4368,4449>> ELSE <<c>> ELSE
            IF c = 12922 THEN <<4369,4449>> ELSE IF c = 12923 THEN
            <<4370,4449>> ELSE IF c = 12924 THEN <<4366,4449,4535,4352,4457>>
            ELSE <<c>> ELSE IF c < 12929 THEN IF c = 12925 THEN
            <<4364,4462,4363,4468>> ELSE IF c = 12926 THEN <<4363,4462>> ELSE
            IF c = 12928 THEN <<19968>> ELSE <<c>> ELSE IF c = 12929 THEN
            <<20108>> ELSE IF c = 12930 THEN <<19977>> ELSE IF c = 12931 THEN
            <<22235>> ELSE <<c>> ELSE IF c < 12938 THEN IF c < 12935 THEN IF c
            = 12932 THEN <<20116>> ELSE IF c = 12933 THEN <<20845>> ELSE IF c
            = 12934 THEN <<19971>> ELSE <<c>> ELSE IF c = 12935 THEN <<20843>>
            ELSE IF c = 12936 THEN <<20061>> ELSE IF c = 12937 THEN <<21313>>
            ELSE <<c>> ELSE IF c < 12941 THEN IF c = 12938 THEN <<26376>> ELSE
            IF c = 12939 THEN <<28779>> ELSE IF c = 12940 THEN <<27700>> ELSE
            <<c>> ELSE IF c = 12941 THEN <<26408>> ELSE IF c = 12942 THEN
            <<37329>> ELSE IF c = 12943 THEN <<22303>> ELSE <<c>> ELSE IF c <
            12955 THEN IF c < 12949 THEN IF c < 12946 THEN IF c = 12944 THEN
            <<26085>> ELSE IF c = 12945 THEN <<26666>> ELSE <<c>> ELSE IF c =
            12946 THEN <<26377>> ELSE IF c = 12947 THEN <<31038>> ELSE IF c =
            12948 THEN <<21517>> ELSE <<c>> ELSE IF c < 12952 THEN IF c =
            12949 THEN <<29305>> ELSE IF c = 12950 THEN <<36001>> ELSE IF c =
            12951 THEN <<31069>> ELSE <<c>> ELSE IF c = 12952 THEN <<21172>>
            ELSE IF c = 12953 THEN <<31192>> ELSE IF c = 12954 THEN <<30007>>
            ELSE <<c>> ELSE IF c < 12961 THEN IF c < 12958 THEN IF c = 12955
            THEN <<22899>> ELSE IF c = 12956 THEN <<36969>> ELSE IF c = 12957
            THEN <<20778>> ELSE <<c>> ELSE IF c = 12958 THEN <<21360>> ELSE IF
            c = 12959 THEN <<27880>> ELSE IF c = 12960 THEN <<38917>> ELSE
            <<c>> ELSE IF c < 12964 THEN IF c = 12961 THEN <<20241>> ELSE IF c
            = 12962 THEN <<20889>> ELSE IF c = 12963 THEN <<27491>> ELSE <<c>>
            ELSE IF c = 12964 THEN <<19978>> ELSE IF c = 12965 THEN <<20013>>
            ELSE IF c = 12966 THEN <<19979>> ELSE <<c>> ELSE IF c < 13057 THEN
            IF c < 13012 THEN IF c < 12989 THEN IF c < 12978 THEN IF c < 12972
            THEN IF c < 12969 THEN IF c = 12967 THEN <<24038>> ELSE IF c =
            12968 THEN <<21491>> ELSE <<c>> ELSE IF c = 12969 THEN <<21307>>
            ELSE IF c = 12970 THEN <<23447>> ELSE IF c = 12971 THEN <<23398>>
            ELSE <<c>> ELSE IF c < 12975 THEN IF c = 12972 THEN <<30435>> ELSE
            IF c = 12973 THEN <<20225>> ELSE IF c = 12974 THEN <<36039>> ELSE
            <<c>> ELSE IF c = 12975 THEN <<21332>> ELSE IF c = 12976 THEN
            <<22812>> ELSE IF c = 12977 THEN <<51,54>> ELSE <<c>> ELSE IF c <
            12983 THEN IF c < 12980 THEN IF c = 12978 THEN <<51,55>> ELSE IF c
            = 12979 THEN <<51,56>> ELSE <<c>> ELSE IF c = 12980 THEN <<51,57>>
            ELSE IF c = 12981 THEN <<52,48>> ELSE IF c = 12982 THEN <<52,49>>
            ELSE <<c>> ELSE IF c < 12986 THEN IF c = 12983 THEN <<52,50>> ELSE
            IF c = 12984 THEN <<52,51>> ELSE IF c = 12985 THEN <<52,52>> ELSE
            <<c>> ELSE IF c = 12986 THEN <<52,53>> ELSE IF c = 12987 THEN
            <<52,54>> ELSE IF c = 12988 THEN <<52,55>> ELSE <<c>> ELSE IF c <
            13000 THEN IF c < 12994 THEN IF c < 12991 THEN IF c = 12989 THEN
            <<52,56>> ELSE IF c = 12990 THEN <<52,57>> ELSE <<c>> ELSE IF c =
            12991 THEN <<53,48>> ELSE IF c = 12992 THEN <<49,26376>> ELSE IF c
            = 12993 THEN <<50,26376>> ELSE <<c>> ELSE IF c < 12997 THEN IF c =
            12994 THEN <<51,26376>> ELSE IF c = 12995 THEN <<52,26376>> ELSE
            IF c = 12996 THEN <<53,26376>> ELSE <<c>> ELSE IF c = 12997 THEN
            <<54,26376>> ELSE IF c = 12998 THEN <<55,26376>> ELSE IF c = 12999
            THEN <<56,26376>> ELSE <<c>> ELSE IF c < 13006 THEN IF c < 13003
            THEN IF c = 13000 THEN <<57,26376>> ELSE IF c = 13001 THEN
            <<49,48,26376>> ELSE IF c = 13002 THEN <<49,49,26376>> ELSE <<c>>
            ELSE IF c = 13003 THEN <<49,50,26376>> ELSE IF c = 13004 THEN
            <<72,103>> ELSE IF c = 13005 THEN <<101,114,103>> ELSE <<c>> ELSE
            IF c < 13009 THEN IF c = 13006 THEN <<101,86>> ELSE IF c = 13007
            THEN <<76,84,68>> ELSE IF c = 13008 THEN <<12450>> ELSE <<c>> ELSE
            IF c = 13009 THEN <<12452>> ELSE IF c = 13010 THEN <<12454>> ELSE
            IF c = 13011 THEN <<12456>> ELSE <<c>> ELSE IF c < 13034 THEN IF c
            < 13023 THEN IF c < 13017 THEN IF c < 13014 THEN IF c = 13012 THEN
            <<12458>> ELSE IF c = 13013 THEN <<12459>> ELSE <<c>> ELSE IF c =
            13014 THEN <<12461>> ELSE IF c = 13015 THEN <<12463>> ELSE IF c =
            13016 THEN <<12465>> ELSE <<c>> ELSE IF c < 13020 THEN IF c =
            13017 THEN <<12467>> ELSE IF c = 13018 THEN <<12469>> ELSE IF c =
            13019 THEN <<12471>> ELSE <<c>> ELSE IF c = 13020 THEN <<12473>>
            ELSE IF c = 13021 THEN <<12475>> ELSE IF c = 13022 THEN <<12477>>
            ELSE <<c>> ELSE IF c < 13028 THEN IF c < 13025 THEN IF c = 13023
            THEN <<12479>> ELSE IF c = 13024 THEN <<12481>> ELSE <<c>> ELSE IF
            c = 13025 THEN <<12484>> ELSE IF c = 13026 THEN <<12486>> ELSE IF
            c = 13027 THEN <<12488>> ELSE <<c>> ELSE IF c < 13031 THEN IF c =
            13028 THEN <<12490>> ELSE IF c = 13029 THEN <<12491>> ELSE IF c =
            13030 THEN <<12492>> ELSE <<c>> ELSE IF c = 13031 THEN <<12493>>
            ELSE IF c = 13032 THEN <<12494>> ELSE IF c = 13033 THEN <<12495>>
            ELSE <<c>> ELSE IF c < 13045 THEN IF c < 13039 THEN IF c < 13036
            THEN IF c = 13034 THEN <<12498>> ELSE IF c = 13035 THEN <<12501>>
            ELSE <<c>> ELSE IF c = 13036 THEN <<12504>> ELSE IF c = 13037 THEN
            <<12507>> ELSE IF c = 13038 THEN <<12510>> ELSE <<c>> ELSE IF c <
            13042 THEN IF c = 13039 THEN <<12511>> ELSE IF c = 13040 THEN
            <<12512>> ELSE IF c = 13041 THEN <<12513>> ELSE <<c>> ELSE IF c =
            13042 THEN <<12514>> ELSE IF c = 13043 THEN <<12516>> ELSE IF c =
            13044 THEN <<12518>> ELSE <<c>> ELSE IF c < 13051 THEN IF c <
            13048 THEN IF c = 13045 THEN <<12520>> ELSE IF c = 13046 THEN
            <<12521>> ELSE IF c = 13047 THEN <<12522>> ELSE <<c>> ELSE IF c =
            13048 THEN <<12523>> ELSE IF c = 13049 THEN <<12524>> ELSE IF c =
            13050 THEN <<12525>> ELSE <<c>> ELSE IF c < 13054 THEN IF c =
            13051 THEN <<12527>> ELSE IF c = 13052 THEN <<12528>> ELSE IF c =
            13053 THEN <<12529>> ELSE <<c>> ELSE IF c = 13054 THEN <<12530>>
            ELSE IF c = 13055 THEN <<20196,21644>> ELSE IF c = 13056 THEN
            <<12450,12495,12442,12540,12488>> ELSE <<c>> ELSE IF c < 13102
            THEN IF c < 13079 THEN IF c < 13068 THEN IF c < 13062 THEN IF c <
            13059 THEN IF c = 13057 THEN <<12450,12523,12501,12449>> ELSE IF c
            = 13058 THEN <<12450,12531,12504,12442,12450>> ELSE <<c>> ELSE IF
            c = 13059 THEN <<12450,12540,12523>> ELSE IF c = 13060 THEN
            <<12452,12491,12531,12463,12441>> ELSE IF c = 13061 THEN
            <<12452,12531,12481>> ELSE <<c>> ELSE IF c < 13065 THEN IF c =
            13062 THEN <<12454,12457,12531>> ELSE IF c = 13063 THEN
            <<12456,12473,12463,12540,12488,12441>> ELSE IF c = 13064 THEN
            <<12456,12540,12459,12540>> ELSE <<c>> ELSE IF c = 13065 THEN
            <<12458,12531,12473>> ELSE IF c = 13066 THEN <<12458,12540,12512>>
            ELSE IF c = 13067 THEN <<12459,12452,12522>> ELSE <<c>> ELSE IF c
            < 13073 THEN IF c < 13070 THEN IF c = 13068 THEN
            <<12459,12521,12483,12488>> ELSE IF c = 13069 THEN
            <<12459,12525,12522,12540>> ELSE <<c>> ELSE IF c = 13070 THEN
            <<12459,12441,12525,12531>> ELSE IF c = 13071 THEN
            <<12459,12441,12531,12510>> ELSE IF c = 13072 THEN
            <<12461,12441,12459,12441>> ELSE <<c>> ELSE IF c < 13076 THEN IF c
            = 13073 THEN <<12461,12441,12491,12540>> ELSE IF c = 13074 THEN
            <<12461,12517,12522,12540>> ELSE IF c = 13075 THEN
            <<12461,12441,12523,12479,12441,12540>> ELSE <<c>> ELSE IF c =
            13076 THEN <<12461,12525>> ELSE IF c = 13077 THEN
            <<12461,12525,12463,12441,12521,12512>> ELSE IF c = 13078 THEN
            <<12461,12525,12513,12540,12488,12523>> ELSE <<c>> ELSE IF c <
            13090 THEN IF c < 13084 THEN IF c < 13081 THEN IF c = 13079 THEN
            <<12461,12525,12527,12483,12488>> ELSE IF c = 13080 THEN
            <<12463,12441,12521,12512>> ELSE <<c>> ELSE IF c = 13081 THEN
            <<12463,12441,12521,12512,12488,12531>> ELSE IF c = 13082 THEN
            <<12463,12523,12475,12441,12452,12525>> ELSE IF c = 13083 THEN
            <<12463,12525,12540,12493>> ELSE <<c>> ELSE IF c < 13087 THEN IF c
            = 13084 THEN <<12465,12540,12473>> ELSE IF c = 13085 THEN
            <<12467,12523,12490>> ELSE IF c = 13086 THEN
            <<12467,12540,12507,12442>> ELSE <<c>> ELSE IF c = 13087 THEN
            <<12469,12452,12463,12523>> ELSE IF c = 13088 THEN
            <<12469,12531,12481,12540,12512>> ELSE IF c = 13089 THEN
            <<12471,12522,12531,12463,12441>> ELSE <<c>> ELSE IF c < 13096
            THEN IF c < 13093 THEN IF c = 13090 THEN <<12475,12531,12481>>
            ELSE IF c = 13091 THEN <<12475,12531,12488>> ELSE IF c = 13092
            THEN <<12479,12441,12540,12473>> ELSE <<c>> ELSE IF c = 13093 THEN
            <<12486,12441,12471>> ELSE IF c = 13094 THEN <<12488,12441,12523>>
            ELSE IF c = 13095 THEN <<12488,12531>> ELSE <<c>> ELSE IF c <
            13099 THEN IF c = 13096 THEN <<12490,12494>> ELSE IF c = 13097
            THEN <<12494,12483,12488>> ELSE IF c = 13098 THEN
            <<12495,12452,12484>> ELSE <<c>> ELSE IF c = 13099 THEN
            <<12495,12442,12540,12475,12531,12488>> ELSE IF c = 13100 THEN
            <<12495,12442,12540,12484>> ELSE IF c = 13101 THEN
            <<12495,12441,12540,12524,12523>> ELSE <<c>> ELSE IF c < 13125
            THEN IF c < 13113 THEN IF c < 13107 THEN IF c < 13104 THEN IF c =
            13102 THEN <<12498,12442,12450,12473,12488,12523>> ELSE IF c =
            13103 THEN <<12498,12442,12463,12523>> ELSE <<c>> ELSE IF c =
            13104 THEN <<12498,12442,12467>> ELSE IF c = 13105 THEN
            <<12498,12441,12523>> ELSE IF c = 13106 THEN
            <<12501,12449,12521,12483,12488,12441>> ELSE <<c>> ELSE IF c <
            13110 THEN IF c = 13107 THEN <<12501,12451,12540,12488>> ELSE IF c
            = 13108 THEN <<12501,12441,12483,12471,12455,12523>> ELSE IF c =
            13109 THEN <<12501,12521,12531>> ELSE <<c>> ELSE IF c = 13110 THEN
            <<12504,12463,12479,12540,12523>> ELSE IF c = 13111 THEN
            <<12504,12442,12477>> ELSE IF c = 13112 THEN
            <<12504,12442,12491,12498>> ELSE <<c>> ELSE IF c < 13119 THEN IF c
            < 13116 THEN IF c = 13113 THEN <<12504,12523,12484>> ELSE IF c =
            13114 THEN <<12504,12442,12531,12473>> ELSE IF c = 13115 THEN
            <<12504,12442,12540,12471,12441>> ELSE <<c>> ELSE IF c = 13116
            THEN <<12504,12441,12540,12479>> ELSE IF c = 13117 THEN
            <<12507,12442,12452,12531,12488>> ELSE IF c = 13118 THEN
            <<12507,12441,12523,12488>> ELSE <<c>> ELSE IF c < 13122 THEN IF c
            = 13119 THEN <<12507,12531>> ELSE IF c = 13120 THEN
            <<12507,12442,12531,12488,12441>> ELSE IF c = 13121 THEN
            <<12507,12540,12523>> ELSE <<c>> ELSE IF c = 13122 THEN
            <<12507,12540,12531>> ELSE IF c = 13123 THEN
            <<12510,12452,12463,12525>> ELSE IF c = 13124 THEN
            <<12510,12452,12523>> ELSE <<c>> ELSE IF c < 13136 THEN IF c <
            13130 THEN IF c < 13127 THEN IF c = 13125 THEN
            <<12510,12483,12495>> ELSE IF c = 13126 THEN <<12510,12523,12463>>
            ELSE <<c>> ELSE IF c = 13127 THEN
            <<12510,12531,12471,12519,12531>> ELSE IF c = 13128 THEN
            <<12511,12463,12525,12531>> ELSE IF c = 13129 THEN <<12511,12522>>
            ELSE <<c>> ELSE IF c < 13133 THEN IF c = 13130 THEN
            <<12511,12522,12495,12441,12540,12523>> ELSE IF c = 13131 THEN
            <<12513,12459,12441>> ELSE IF c = 13132 THEN
            <<12513,12459,12441,12488,12531>> ELSE <<c>> ELSE IF c = 13133
            THEN <<12513,12540,12488,12523>> ELSE IF c = 13134 THEN
            <<12516,12540,12488,12441>> ELSE IF c = 13135 THEN
            <<12516,12540,12523>> ELSE <<c>> ELSE IF c < 13142 THEN IF c <
            13139 THEN IF c = 13136 THEN <<12518,12450,12531>> ELSE IF c =
            13137 THEN <<12522,12483,12488,12523>> ELSE IF c = 13138 THEN
            <<12522,12521>> ELSE <<c>> ELSE IF c = 13139 THEN
            <<12523,12498,12442,12540>> ELSE IF c = 13140 THEN
            <<12523,12540,12501,12441,12523>> ELSE IF c = 13141 THEN
            <<12524,12512>> ELSE <<c>> ELSE IF c < 13145 THEN IF c = 13142
            THEN <<12524,12531,12488,12465,12441,12531>> ELSE IF c = 13143
            THEN <<12527,12483,12488>> ELSE IF c = 13144 THEN <<48,28857>>
            ELSE <<c>> ELSE IF c = 13145 THEN <<49,28857>> ELSE IF c = 13146
            THEN <<50,28857>> ELSE IF c = 13147 THEN <<51,28857>> ELSE <<c>>
            ELSE IF c < 63929 THEN IF c < 63748 THEN IF c < 13238 THEN IF c <
            13193 THEN IF c < 13170 THEN IF c < 13159 THEN IF c < 13153 THEN
            IF c < 13150 THEN IF c = 13148 THEN <<52,28857>> ELSE IF c = 13149
            THEN <<53,28857>> ELSE <<c>> ELSE IF c = 13150 THEN <<54,28857>>
            ELSE IF c = 13151 THEN <<55,28857>> ELSE IF c = 13152 THEN
            <<56,28857>> ELSE <<c>> ELSE IF c < 13156 THEN IF c = 13153 THEN
            <<57,28857>> ELSE IF c = 13154 THEN <<49,48,28857>> ELSE IF c =
            13155 THEN <<49,49,28857>> ELSE <<c>> ELSE IF c = 13156 THEN
            <<49,50,28857>> ELSE IF c = 13157 THEN <<49,51,28857>> ELSE IF c =
            13158 THEN <<49,52,28857>> ELSE <<c>> ELSE IF c < 13164 THEN IF c
            < 13161 THEN IF c = 13159 THEN <<49,53,28857>> ELSE IF c = 13160
            THEN <<49,54,28857>> ELSE <<c>> ELSE IF c = 13161 THEN
            <<49,55,28857>> ELSE IF c = 13162 THEN <<49,56,28857>> ELSE IF c =
            13163 THEN <<49,57,28857>> ELSE <<c>> ELSE IF c < 13167 THEN IF c
            = 13164 THEN <<50,48,28857>> ELSE IF c = 13165 THEN
            <<50,49,28857>> ELSE IF c = 13166 THEN <<50,50,28857>> ELSE <<c>>
            ELSE IF c = 13167 THEN <<50,51,28857>> ELSE IF c = 13168 THEN
            <<50,52,28857>> ELSE IF c = 13169 THEN <<104,80,97>> ELSE <<c>>
            ELSE IF c < 13181 THEN IF c < 13175 THEN IF c < 13172 THEN IF c =
            13170 THEN <<100,97>> ELSE IF c = 13171 THEN <<65,85>> ELSE <<c>>
            ELSE IF c = 13172 THEN <<98,97,114>> ELSE IF c = 13173 THEN
            <<111,86>> ELSE IF c = 13174 THEN <<112,99>> ELSE <<c>> ELSE IF c
            < 13178 THEN IF c = 13175 THEN <<100,109>> ELSE IF c = 13176 THEN
            <<100,109,50>> ELSE IF c = 13177 THEN <<100,109,51>> ELSE <<c>>
            ELSE IF c = 13178 THEN <<73,85>> ELSE IF c = 13179 THEN
            <<24179,25104>> ELSE IF c = 13180 THEN <<26157,21644>> ELSE <<c>>
            ELSE IF c < 13187 THEN IF c < 13184 THEN IF c = 13181 THEN
            <<22823,27491>> ELSE IF c = 13182 THEN <<26126,27835>> ELSE IF c =
            13183 THEN <<26666,24335,20250,31038>> ELSE <<c>> ELSE IF c =
            13184 THEN <<112,65>> ELSE IF c = 13185 THEN <<110,65>> ELSE IF c
            = 13186 THEN <<956,65>> ELSE <<c>> ELSE IF c < 13190 THEN IF c =
            13187 THEN <<109,65>> ELSE IF c = 13188 THEN <<107,65>> ELSE IF c
            = 13189 THEN <<75,66>> ELSE <<c>> ELSE IF c = 13190 THEN <<77,66>>
            ELSE IF c = 13191 THEN <<71,66>> ELSE IF c = 13192 THEN
            <<99,97,108>> ELSE <<c>> ELSE IF c < 13215 THEN IF c < 13204 THEN
            IF c < 13198 THEN IF c < 13195 THEN IF c = 13193 THEN
            <<107,99,97,108>> ELSE IF c = 13194 THEN <<112,70>> ELSE <<c>>
            ELSE IF c = 13195 THEN <<110,70>> ELSE IF c = 13196 THEN
            <<956,70>> ELSE IF c = 13197 THEN <<956,103>> ELSE <<c>> ELSE IF c
            < 13201 THEN IF c = 13198 THEN <<109,103>> ELSE IF c = 13199 THEN
            <<107,103>> ELSE IF c = 13200 THEN <<72,122>> ELSE <<c>> ELSE IF c
            = 13201 THEN <<107,72,122>> ELSE IF c = 13202 THEN <<77,72,122>>
            ELSE IF c = 13203 THEN <<71,72,122>> ELSE <<c>> ELSE IF c < 13209
            THEN IF c < 13206 THEN IF c = 13204 THEN <<84,72,122>> ELSE IF c =
            13205 THEN <<956,108>> ELSE <<c>> ELSE IF c = 13206 THEN
            <<109,108>> ELSE IF c = 13207 THEN <<100,108>> ELSE IF c = 13208
            THEN <<107,108>> ELSE <<c>> ELSE IF c < 13212 THEN IF c = 13209
            THEN <<102,109>> ELSE IF c = 13210 THEN <<110,109>> ELSE IF c =
            13211 THEN <<956,109>> ELSE <<c>> ELSE IF c = 13212 THEN
            <<109,109>> ELSE IF c = 13213 THEN <<99,109>> ELSE IF c = 13214
            THEN <<107,109>> ELSE <<c>> ELSE IF c < 13226 THEN IF c < 13220
            THEN IF c < 13217 THEN IF c = 13215 THEN <<109,109,50>> ELSE IF c
            = 13216 THEN <<99,109,50>> ELSE <<c>> ELSE IF c = 13217 THEN
            <<109,50>> ELSE IF c = 13218 THEN <<107,109,50>> ELSE IF c = 13219
            THEN <<109,109,51>> ELSE <<c>> ELSE IF c < 13223 THEN IF c = 13220
            THEN <<99,109,51>> ELSE IF c = 13221 THEN <<109,51>> ELSE IF c =
            13222 THEN <<107,109,51>> ELSE <<c>> ELSE IF c = 13223 THEN
            <<109,8725,115>> ELSE IF c = 13224 THEN <<109,8725,115,50>> ELSE
            IF c = 13225 THEN <<80,97>> ELSE <<c>> ELSE IF c < 13232 THEN IF c
            < 13229 THEN IF c = 13226 THEN <<107,80,97>> ELSE IF c = 13227
            THEN <<77,80,97>> ELSE IF c = 13228 THEN <<71,80,97>> ELSE <<c>>
            ELSE IF c = 13229 THEN <<114,97,100>> ELSE IF c = 13230 THEN
            <<114,97,100,8725,115>> ELSE IF c = 13231 THEN
            <<114,97,100,8725,115,50>> ELSE <<c>> ELSE IF c < 13235 THEN IF c
            = 13232 THEN <<112,115>> ELSE IF c = 13233 THEN <<110,115>> ELSE
            IF c = 13234 THEN <<956,115>> ELSE <<c>> ELSE IF c = 13235 THEN
            <<109,115>> ELSE IF c = 13236 THEN <<112,86>> ELSE IF c = 13237
            THEN <<110,86>> ELSE <<c>> ELSE IF c < 13283 THEN IF c < 13260
            THEN IF c < 13249 THEN IF c < 13243 THEN IF c < 13240 THEN IF c =
            13238 THEN <<956,86>> ELSE IF c = 13239 THEN <<109,86>> ELSE <<c>>
            ELSE IF c = 13240 THEN <<107,86>> ELSE IF c = 13241 THEN <<77,86>>
            ELSE IF c = 13242 THEN <<112,87>> ELSE <<c>> ELSE IF c < 13246
            THEN IF c = 13243 THEN <<110,87>> ELSE IF c = 13244 THEN
            <<956,87>> ELSE IF c = 13245 THEN <<109,87>> ELSE <<c>> ELSE IF c
            = 13246 THEN <<107,87>> ELSE IF c = 13247 THEN <<77,87>> ELSE IF c
            = 13248 THEN <<107,937>> ELSE <<c>> ELSE IF c < 13254 THEN IF c <
            13251 THEN IF c = 13249 THEN <<77,937>> ELSE IF c = 13250 THEN
            <<97,46,109,46>> ELSE <<c>> ELSE IF c = 13251 THEN <<66,113>> ELSE
            IF c = 13252 THEN <<99,99>> ELSE IF c = 13253 THEN <<99,100>> ELSE
            <<c>> ELSE IF c < 13257 THEN IF c = 13254 THEN <<67,8725,107,103>>
            ELSE IF c = 13255 THEN <<67,111,46>> ELSE IF c = 13256 THEN
            <<100,66>> ELSE <<c>> ELSE IF c = 13257 THEN <<71,121>> ELSE IF c
            = 13258 THEN <<104,97>> ELSE IF c = 13259 THEN <<72,80>> ELSE
            <<c>> ELSE IF c < 13271 THEN IF c < 13265 THEN IF c < 13262 THEN
            IF c = 13260 THEN <<105,110>> ELSE IF c = 13261 THEN <<75,75>>
            ELSE <<c>> ELSE IF c = 13262 THEN <<75,77>> ELSE IF c = 13263 THEN
            <<107,116>> ELSE IF c = 13264 THEN <<108,109>> ELSE <<c>> ELSE IF
            c < 13268 THEN IF c = 13265 THEN <<108,110>> ELSE IF c = 13266
            THEN <<108,111,103>> ELSE IF c = 13267 THEN <<108,120>> ELSE <<c>>
            ELSE IF c = 13268 THEN <<109,98>> ELSE IF c = 13269 THEN
            <<109,105,108>> ELSE IF c = 13270 THEN <<109,111,108>> ELSE <<c>>
            ELSE IF c < 13277 THEN IF c < 13274 THEN IF c = 13271 THEN
            <<80,72>> ELSE IF c = 13272 THEN <<112,46,109,46>> ELSE IF c =
            13273 THEN <<80,80,77>> ELSE <<c>> ELSE IF c = 13274 THEN
            <<80,82>> ELSE IF c = 13275 THEN <<115,114>> ELSE IF c = 13276
            THEN <<83,118>> ELSE <<c>> ELSE IF c < 13280 THEN IF c = 13277
            THEN <<87,98>> ELSE IF c = 13278 THEN <<86,8725,109>> ELSE IF c =
            13279 THEN <<65,8725,109>> ELSE <<c>> ELSE IF c = 13280 THEN
            <<49,26085>> ELSE IF c = 13281 THEN <<50,26085>> ELSE IF c = 13282
            THEN <<51,26085>> ELSE <<c>> ELSE IF c < 13306 THEN IF c < 13294
            THEN IF c < 13288 THEN IF c < 13285 THEN IF c = 13283 THEN
            <<52,26085>> ELSE IF c = 13284 THEN <<53,26085>> ELSE <<c>> ELSE
            IF c = 13285 THEN <<54,26085>> ELSE IF c = 13286 THEN <<55,26085>>
            ELSE IF c = 13287 THEN <<56,26085>> ELSE <<c>> ELSE IF c < 13291
            THEN IF c = 13288 THEN <<57,26085>> ELSE IF c = 13289 THEN
            <<49,48,26085>> ELSE IF c = 13290 THEN <<49,49,26085>> ELSE <<c>>
            ELSE IF c = 13291 THEN <<49,50,26085>> ELSE IF c = 13292 THEN
            <<49,51,26085>> ELSE IF c = 13293 THEN <<49,52,26085>> ELSE <<c>>
            ELSE IF c < 13300 THEN IF c < 13297 THEN IF c = 13294 THEN
            <<49,53,26085>> ELSE IF c = 13295 THEN <<49,54,26085>> ELSE IF c =
            13296 THEN <<49,55,26085>> ELSE <<c>> ELSE IF c = 13297 THEN
            <<49,56,26085>> ELSE IF c = 13298 THEN <<49,57,26085>> ELSE IF c =
            13299 THEN <<50,48,26085>> ELSE <<c>> ELSE IF c < 13303 THEN IF c
            = 13300 THEN <<50,49,26085>> ELSE IF c = 13301 THEN
            <<50,50,26085>> ELSE IF c = 13302 THEN <<50,51,26085>> ELSE <<c>>
            ELSE IF c = 13303 THEN <<50,52,26085>> ELSE IF c = 13304 THEN
            <<50,53,26085>> ELSE IF c = 13305 THEN <<50,54,26085>> ELSE <<c>>
            ELSE IF c < 42996 THEN IF c < 13311 THEN IF c < 13308 THEN IF c =
            13306 THEN <<50,55,26085>> ELSE IF c = 13307 THEN <<50,56,26085>>
            ELSE <<c>> ELSE IF c = 13308 THEN <<50,57,26085>> ELSE IF c =
            13309 THEN <<51,48,26085>> ELSE IF c = 13310 THEN <<51,49,26085>>
            ELSE <<c>> ELSE IF c < 42864 THEN IF c = 13311 THEN <<103,97,108>>
            ELSE IF c = 42652 THEN <<1098>> ELSE IF c = 42653 THEN <<1100>>
            ELSE <<c>> ELSE IF c = 42864 THEN <<42863>> ELSE IF c = 42994 THEN
            <<67>> ELSE IF c = 42995 THEN <<70>> ELSE <<c>> ELSE IF c < 43871
            THEN IF c < 43868 THEN IF c = 42996 THEN <<81>> ELSE IF c = 43000
            THEN <<294>> ELSE IF c = 43001 THEN <<339>> ELSE <<c>> ELSE IF c =
            43868 THEN <<42791>> ELSE IF c = 43869 THEN <<43831>> ELSE IF c =
            43870 THEN <<619>> ELSE <<c>> ELSE IF c < 63745 THEN IF c = 43871
            THEN <<43858>> ELSE IF c = 43881 THEN <<653>> ELSE IF c = 63744
            THEN <<35912>> ELSE <<c>> ELSE IF c = 63745 THEN <<26356>> ELSE IF
            c = 63746 THEN <<36554>> ELSE IF c = 63747 THEN <<36040>> ELSE
            <<c>> ELSE IF c < 63838 THEN IF c < 63793 THEN IF c < 63770 THEN
            IF c < 63759 THEN IF c < 63753 THEN IF c < 63750 THEN IF c = 63748
            THEN <<28369>> ELSE IF c = 63749 THEN <<20018>> ELSE <<c>> ELSE IF
            c = 63750 THEN <<21477>> ELSE IF c = 63751 THEN <<40860>> ELSE IF
            c = 63752 THEN <<40860>> ELSE <<c>> ELSE IF c < 63756 THEN IF c =
            63753 THEN <<22865>> ELSE IF c = 63754 THEN <<37329>> ELSE IF c =
            63755 THEN <<21895>> ELSE <<c>> ELSE IF c = 63756 THEN <<22856>>
            ELSE IF c = 63757 THEN <<25078>> ELSE IF c = 63758 THEN <<30313>>
            ELSE <<c>> ELSE IF c < 63764 THEN IF c < 63761 THEN IF c = 63759
            THEN <<32645>> ELSE IF c = 63760 THEN <<34367>> ELSE <<c>> ELSE IF
            c = 63761 THEN <<34746>> ELSE IF c = 63762 THEN <<35064>> ELSE IF
            c = 63763 THEN <<37007>> ELSE <<c>> ELSE IF c < 63767 THEN IF c =
            63764 THEN <<27138>> ELSE IF c = 63765 THEN <<27931>> ELSE IF c =
            63766 THEN <<28889>> ELSE <<c>> ELSE IF c = 63767 THEN <<29662>>
            ELSE IF c = 63768 THEN <<33853>> ELSE IF c = 63769 THEN <<37226>>
            ELSE <<c>> ELSE IF c < 63781 THEN IF c < 63775 THEN IF c < 63772
            THEN IF c = 63770 THEN <<39409>> ELSE IF c = 63771 THEN <<20098>>
            ELSE <<c>> ELSE IF c = 63772 THEN <<21365>> ELSE IF c = 63773 THEN
            <<27396>> ELSE IF c = 63774 THEN <<29211>> ELSE <<c>> ELSE IF c <
            63778 THEN IF c = 63775 THEN <<34349>> ELSE IF c = 63776 THEN
            <<40478>> ELSE IF c = 63777 THEN <<23888>> ELSE <<c>> ELSE IF c =
            63778 THEN <<28651>> ELSE IF c = 63779 THEN <<34253>> ELSE IF c =
            63780 THEN <<35172>> ELSE <<c>> ELSE IF c < 63787 THEN IF c <
            63784 THEN IF c = 63781 THEN <<25289>> ELSE IF c = 63782 THEN
            <<33240>> ELSE IF c = 63783 THEN <<34847>> ELSE <<c>> ELSE IF c =
            63784 THEN <<24266>> ELSE IF c = 63785 THEN <<26391>> ELSE IF c =
            63786 THEN <<28010>> ELSE <<c>> ELSE IF c < 63790 THEN IF c =
            63787 THEN <<29436>> ELSE IF c = 63788 THEN <<37070>> ELSE IF c =
            63789 THEN <<20358>> ELSE <<c>> ELSE IF c = 63790 THEN <<20919>>
            ELSE IF c = 63791 THEN <<21214>> ELSE IF c = 63792 THEN <<25796>>
            ELSE <<c>> ELSE IF c < 63815 THEN IF c < 63804 THEN IF c < 63798
            THEN IF c < 63795 THEN IF c = 63793 THEN <<27347>> ELSE IF c =
            63794 THEN <<29200>> ELSE <<c>> ELSE IF c = 63795 THEN <<30439>>
            ELSE IF c = 63796 THEN <<32769>> ELSE IF c = 63797 THEN <<34310>>
            ELSE <<c>> ELSE IF c < 63801 THEN IF c = 63798 THEN <<34396>> ELSE
            IF c = 63799 THEN <<36335>> ELSE IF c = 63800 THEN <<38706>> ELSE
            <<c>> ELSE IF c = 63801 THEN <<39791>> ELSE IF c = 63802 THEN
            <<40442>> ELSE IF c = 63803 THEN <<30860>> ELSE <<c>> ELSE IF c <
            63809 THEN IF c < 63806 THEN IF c = 63804 THEN <<31103>> ELSE IF c
            = 63805 THEN <<32160>> ELSE <<c>> ELSE IF c = 63806 THEN <<33737>>
            ELSE IF c = 63807 THEN <<37636>> ELSE IF c = 63808 THEN <<40575>>
            ELSE <<c>> ELSE IF c < 63812 THEN IF c = 63809 THEN <<35542>> ELSE
            IF c = 63810 THEN <<22751>> ELSE IF c = 63811 THEN <<24324>> ELSE
            <<c>> ELSE IF c = 63812 THEN <<31840>> ELSE IF c = 63813 THEN
            <<32894>> ELSE IF c = 63814 THEN <<29282>> ELSE <<c>> ELSE IF c <
            63826 THEN IF c < 63820 THEN IF c < 63817 THEN IF c = 63815 THEN
            <<30922>> ELSE IF c = 63816 THEN <<36034>> ELSE <<c>> ELSE IF c =
            63817 THEN <<38647>> ELSE IF c = 63818 THEN <<22744>> ELSE IF c =
            63819 THEN <<23650>> ELSE <<c>> ELSE IF c < 63823 THEN IF c =
            63820 THEN <<27155>> ELSE IF c = 63821 THEN <<28122>> ELSE IF c =
            63822 THEN <<28431>> ELSE <<c>> ELSE IF c = 63823 THEN <<32047>>
            ELSE IF c = 63824 THEN <<32311>> ELSE IF c = 63825 THEN <<38475>>
            ELSE <<c>> ELSE IF c < 63832 THEN IF c < 63829 THEN IF c = 63826
            THEN <<21202>> ELSE IF c = 63827 THEN <<32907>> ELSE IF c = 63828
            THEN <<20956>> ELSE <<c>> ELSE IF c = 63829 THEN <<20940>> ELSE IF
            c = 63830 THEN <<31260>> ELSE IF c = 63831 THEN <<32190>> ELSE
            <<c>> ELSE IF c < 63835 THEN IF c = 63832 THEN <<33777>> ELSE IF c
            = 63833 THEN <<38517>> ELSE IF c = 63834 THEN <<35712>> ELSE <<c>>
            ELSE IF c = 63835 THEN <<25295>> ELSE IF c = 63836 THEN <<27138>>
            ELSE IF c = 63837 THEN <<35582>> ELSE <<c>> ELSE IF c < 63883 THEN
            IF c < 63860 THEN IF c < 63849 THEN IF c < 63843 THEN IF c < 63840
            THEN IF c = 63838 THEN <<20025>> ELSE IF c = 63839 THEN <<23527>>
            ELSE <<c>> ELSE IF c = 63840 THEN <<24594>> ELSE IF c = 63841 THEN
            <<29575>> ELSE IF c = 63842 THEN <<30064>> ELSE <<c>> ELSE IF c <
            63846 THEN IF c = 63843 THEN <<21271>> ELSE IF c = 63844 THEN
            <<30971>> ELSE IF c = 63845 THEN <<20415>> ELSE <<c>> ELSE IF c =
            63846 THEN <<24489>> ELSE IF c = 63847 THEN <<19981>> ELSE IF c =
            63848 THEN <<27852>> ELSE <<c>> ELSE IF c < 63854 THEN IF c <
            63851 THEN IF c = 63849 THEN <<25976>> ELSE IF c = 63850 THEN
            <<32034>> ELSE <<c>> ELSE IF c = 63851 THEN <<21443>> ELSE IF c =
            63852 THEN <<22622>> ELSE IF c = 63853 THEN <<30465>> ELSE <<c>>
            ELSE IF c < 63857 THEN IF c = 63854 THEN <<33865>> ELSE IF c =
            63855 THEN <<35498>> ELSE IF c = 63856 THEN <<27578>> ELSE <<c>>
            ELSE IF c = 63857 THEN <<36784>> ELSE IF c = 63858 THEN <<27784>>
            ELSE IF c = 63859 THEN <<25342>> ELSE <<c>> ELSE IF c < 63871 THEN
            IF c < 63865 THEN IF c < 63862 THEN IF c = 63860 THEN <<33509>>
            ELSE IF c = 63861 THEN <<25504>> ELSE <<c>> ELSE IF c = 63862 THEN
            <<30053>> ELSE IF c = 63863 THEN <<20142>> ELSE IF c = 63864 THEN
            <<20841>> ELSE <<c>> ELSE IF c < 63868 THEN IF c = 63865 THEN
            <<20937>> ELSE IF c = 63866 THEN <<26753>> ELSE IF c = 63867 THEN
            <<31975>> ELSE <<c>> ELSE IF c = 63868 THEN <<33391>> ELSE IF c =
            63869 THEN <<35538>> ELSE IF c = 63870 THEN <<37327>> ELSE <<c>>
            ELSE IF c < 63877 THEN IF c < 63874 THEN IF c = 63871 THEN
            <<21237>> ELSE IF c = 63872 THEN <<21570>> ELSE IF c = 63873 THEN
            <<22899>> ELSE <<c>> ELSE IF c = 63874 THEN <<24300>> ELSE IF c =
            63875 THEN <<26053>> ELSE IF c = 63876 THEN <<28670>> ELSE <<c>>
            ELSE IF c < 63880 THEN IF c = 63877 THEN <<31018>> ELSE IF c =
            63878 THEN <<38317>> ELSE IF c = 63879 THEN <<39530>> ELSE <<c>>
            ELSE IF c = 63880 THEN <<40599>> ELSE IF c = 63881 THEN <<40654>>
            ELSE IF c = 63882 THEN <<21147>> ELSE <<c>> ELSE IF c < 63906 THEN
            IF c < 63894 THEN IF c < 63888 THEN IF c < 63885 THEN IF c = 63883
            THEN <<26310>> ELSE IF c = 63884 THEN <<27511>> ELSE <<c>> ELSE IF
            c = 63885 THEN <<36706>> ELSE IF c = 63886 THEN <<24180>> ELSE IF
            c = 63887 THEN <<24976>> ELSE <<c>> ELSE IF c < 63891 THEN IF c =
            63888 THEN <<25088>> ELSE IF c = 63889 THEN <<25754>> ELSE IF c =
            63890 THEN <<28451>> ELSE <<c>> ELSE IF c = 63891 THEN <<29001>>
            ELSE IF c = 63892 THEN <<29833>> ELSE IF c = 63893 THEN <<31178>>
            ELSE <<c>> ELSE IF c < 63900 THEN IF c < 63897 THEN IF c = 63894
            THEN <<32244>> ELSE IF c = 63895 THEN <<32879>> ELSE IF c = 63896
            THEN <<36646>> ELSE <<c>> ELSE IF c = 63897 THEN <<34030>> ELSE IF
            c = 63898 THEN <<36899>> ELSE IF c = 63899 THEN <<37706>> ELSE
            <<c>> ELSE IF c < 63903 THEN IF c = 63900 THEN <<21015>> ELSE IF c
            = 63901 THEN <<21155>> ELSE IF c = 63902 THEN <<21693>> ELSE <<c>>
            ELSE IF c = 63903 THEN <<28872>> ELSE IF c = 63904 THEN <<35010>>
            ELSE IF c = 63905 THEN <<35498>> ELSE <<c>> ELSE IF c < 63917 THEN
            IF c < 63911 THEN IF c < 63908 THEN IF c = 63906 THEN <<24265>>
            ELSE IF c = 63907 THEN <<24565>> ELSE <<c>> ELSE IF c = 63908 THEN
            <<25467>> ELSE IF c = 63909 THEN <<27566>> ELSE IF c = 63910 THEN
            <<31806>> ELSE <<c>> ELSE IF c < 63914 THEN IF c = 63911 THEN
            <<29557>> ELSE IF c = 63912 THEN <<20196>> ELSE IF c = 63913 THEN
            <<22265>> ELSE <<c>> ELSE IF c = 63914 THEN <<23527>> ELSE IF c =
            63915 THEN <<23994>> ELSE IF c = 63916 THEN <<24604>> ELSE <<c>>
            ELSE IF c < 63923 THEN IF c < 63920 THEN IF c = 63917 THEN
            <<29618>> ELSE IF c = 63918 THEN <<29801>> ELSE IF c = 63919 THEN
            <<32666>> ELSE <<c>> ELSE IF c = 63920 THEN <<32838>> ELSE IF c =
            63921 THEN <<37428>> ELSE IF c = 63922 THEN <<38646>> ELSE <<c>>
            ELSE IF c < 63926 THEN IF c = 63923 THEN <<38728>> ELSE IF c =
            63924 THEN <<38936>> ELSE IF c = 63925 THEN <<20363>> ELSE <<c>>
            ELSE IF c = 63926 THEN <<31150>> ELSE IF c = 63927 THEN <<37300>>
            ELSE IF c = 63928 THEN <<38584>> ELSE <<c>> ELSE IF c < 64124 THEN
            IF c < 64024 THEN IF c < 63974 THEN IF c < 63951 THEN IF c < 63940
            THEN IF c < 63934 THEN IF c < 63931 THEN IF c = 63929 THEN
            <<24801>> ELSE IF c = 63930 THEN <<20102>> ELSE <<c>> ELSE IF c =
            63931 THEN <<20698>> ELSE IF c = 63932 THEN <<23534>> ELSE IF c =
            63933 THEN <<23615>> ELSE <<c>> ELSE IF c < 63937 THEN IF c =
            63934 THEN <<26009>> ELSE IF c = 63935 THEN <<27138>> ELSE IF c =
            63936 THEN <<29134>> ELSE <<c>> ELSE IF c = 63937 THEN <<30274>>
            ELSE IF c = 63938 THEN <<34044>> ELSE IF c = 63939 THEN <<36988>>
            ELSE <<c>> ELSE IF c < 63945 THEN IF c < 63942 THEN IF c = 63940
            THEN <<40845>> ELSE IF c = 63941 THEN <<26248>> ELSE <<c>> ELSE IF
            c = 63942 THEN <<38446>> ELSE IF c = 63943 THEN <<21129>> ELSE IF
            c = 63944 THEN <<26491>> ELSE <<c>> ELSE IF c < 63948 THEN IF c =
            63945 THEN <<26611>> ELSE IF c = 63946 THEN <<27969>> ELSE IF c =
            63947 THEN <<28316>> ELSE <<c>> ELSE IF c = 63948 THEN <<29705>>
            ELSE IF c = 63949 THEN <<30041>> ELSE IF c = 63950 THEN <<30827>>
            ELSE <<c>> ELSE IF c < 63962 THEN IF c < 63956 THEN IF c < 63953
            THEN IF c = 63951 THEN <<32016>> ELSE IF c = 63952 THEN <<39006>>
            ELSE <<c>> ELSE IF c = 63953 THEN <<20845>> ELSE IF c = 63954 THEN
            <<25134>> ELSE IF c = 63955 THEN <<38520>> ELSE <<c>> ELSE IF c <
            63959 THEN IF c = 63956 THEN <<20523>> ELSE IF c = 63957 THEN
            <<23833>> ELSE IF c = 63958 THEN <<28138>> ELSE <<c>> ELSE IF c =
            63959 THEN <<36650>> ELSE IF c = 63960 THEN <<24459>> ELSE IF c =
            63961 THEN <<24900>> ELSE <<c>> ELSE IF c < 63968 THEN IF c <
            63965 THEN IF c = 63962 THEN <<26647>> ELSE IF c = 63963 THEN
            <<29575>> ELSE IF c = 63964 THEN <<38534>> ELSE <<c>> ELSE IF c =
            63965 THEN <<21033>> ELSE IF c = 63966 THEN <<21519>> ELSE IF c =
            63967 THEN <<23653>> ELSE <<c>> ELSE IF c < 63971 THEN IF c =
            63968 THEN <<26131>> ELSE IF c = 63969 THEN <<26446>> ELSE IF c =
            63970 THEN <<26792>> ELSE <<c>> ELSE IF c = 63971 THEN <<27877>>
            ELSE IF c = 63972 THEN <<29702>> ELSE IF c = 63973 THEN <<30178>>
            ELSE <<c>> ELSE IF c < 63996 THEN IF c < 63985 THEN IF c < 63979
            THEN IF c < 63976 THEN IF c = 63974 THEN <<32633>> ELSE IF c =
            63975 THEN <<35023>> ELSE <<c>> ELSE IF c = 63976 THEN <<35041>>
            ELSE IF c = 63977 THEN <<37324>> ELSE IF c = 63978 THEN <<38626>>
            ELSE <<c>> ELSE IF c < 63982 THEN IF c = 63979 THEN <<21311>> ELSE
            IF c = 63980 THEN <<28346>> ELSE IF c = 63981 THEN <<21533>> ELSE
            <<c>> ELSE IF c = 63982 THEN <<29136>> ELSE IF c = 63983 THEN
            <<29848>> ELSE IF c = 63984 THEN <<34298>> ELSE <<c>> ELSE IF c <
            63990 THEN IF c < 63987 THEN IF c = 63985 THEN <<38563>> ELSE IF c
            = 63986 THEN <<40023>> ELSE <<c>> ELSE IF c = 63987 THEN <<40607>>
            ELSE IF c = 63988 THEN <<26519>> ELSE IF c = 63989 THEN <<28107>>
            ELSE <<c>> ELSE IF c < 63993 THEN IF c = 63990 THEN <<33256>> ELSE
            IF c = 63991 THEN <<31435>> ELSE IF c = 63992 THEN <<31520>> ELSE
            <<c>> ELSE IF c = 63993 THEN <<31890>> ELSE IF c = 63994 THEN
            <<29376>> ELSE IF c = 63995 THEN <<28825>> ELSE <<c>> ELSE IF c <
            64007 THEN IF c < 64001 THEN IF c < 63998 THEN IF c = 63996 THEN
            <<35672>> ELSE IF c = 63997 THEN <<20160>> ELSE <<c>> ELSE IF c =
            63998 THEN <<33590>> ELSE IF c = 63999 THEN <<21050>> ELSE IF c =
            64000 THEN <<20999>> ELSE <<c>> ELSE IF c < 64004 THEN IF c =
            64001 THEN <<24230>> ELSE IF c = 64002 THEN <<25299>> ELSE IF c =
            64003 THEN <<31958>> ELSE <<c>> ELSE IF c = 64004 THEN <<23429>>
            ELSE IF c = 64005 THEN <<27934>> ELSE IF c = 64006 THEN <<26292>>
            ELSE <<c>> ELSE IF c < 64013 THEN IF c < 64010 THEN IF c = 64007
            THEN <<36667>> ELSE IF c = 64008 THEN <<34892>> ELSE IF c = 64009
            THEN <<38477>> ELSE <<c>> ELSE IF c = 64010 THEN <<35211>> ELSE IF
            c = 64011 THEN <<24275>> ELSE IF c = 64012 THEN <<20800>> ELSE
            <<c>> ELSE IF c < 64021 THEN IF c = 64013 THEN <<21952>> ELSE IF c
            = 64016 THEN <<22618>> ELSE IF c = 64018 THEN <<26228>> ELSE <<c>>
            ELSE IF c = 64021 THEN <<20958>> ELSE IF c = 64022 THEN <<29482>>
            ELSE IF c = 64023 THEN <<30410>> ELSE <<c>> ELSE IF c < 64076 THEN
            IF c < 64053 THEN IF c < 64042 THEN IF c < 64029 THEN IF c < 64026
            THEN IF c = 64024 THEN <<31036>> ELSE IF c = 64025 THEN <<31070>>
            ELSE <<c>> ELSE IF c = 64026 THEN <<31077>> ELSE IF c = 64027 THEN
            <<31119>> ELSE IF c = 64028 THEN <<38742>> ELSE <<c>> ELSE IF c <
            64034 THEN IF c = 64029 THEN <<31934>> ELSE IF c = 64030 THEN
            <<32701>> ELSE IF c = 64032 THEN <<34322>> ELSE <<c>> ELSE IF c =
            64034 THEN <<35576>> ELSE IF c = 64037 THEN <<36920>> ELSE IF c =
            64038 THEN <<37117>> ELSE <<c>> ELSE IF c < 64047 THEN IF c <
            64044 THEN IF c = 64042 THEN <<39151>> ELSE IF c = 64043 THEN
            <<39164>> ELSE <<c>> ELSE IF c = 64044 THEN <<39208>> ELSE IF c =
            64045 THEN <<40372>> ELSE IF c = 64046 THEN <<37086>> ELSE <<c>>
            ELSE IF c < 64050 THEN IF c = 64047 THEN <<38583>> ELSE IF c =
            64048 THEN <<20398>> ELSE IF c = 64049 THEN <<20711>> ELSE <<c>>
            ELSE IF c = 64050 THEN <<20813>> ELSE IF c = 64051 THEN <<21193>>
            ELSE IF c = 64052 THEN <<21220>> ELSE <<c>> ELSE IF c < 64064 THEN
            IF c < 64058 THEN IF c < 64055 THEN IF c = 64053 THEN <<21329>>
            ELSE IF c = 64054 THEN <<21917>> ELSE <<c>> ELSE IF c = 64055 THEN
            <<22022>> ELSE IF c = 64056 THEN <<22120>> ELSE IF c = 64057 THEN
            <<22592>> ELSE <<c>> ELSE IF c < 64061 THEN IF c = 64058 THEN
            <<22696>> ELSE IF c = 64059 THEN <<23652>> ELSE IF c = 64060 THEN
            <<23662>> ELSE <<c>> ELSE IF c = 64061 THEN <<24724>> ELSE IF c =
            64062 THEN <<24936>> ELSE IF c = 64063 THEN <<24974>> ELSE <<c>>
            ELSE IF c < 64070 THEN IF c < 64067 THEN IF c = 64064 THEN
            <<25074>> ELSE IF c = 64065 THEN <<25935>> ELSE IF c = 64066 THEN
            <<26082>> ELSE <<c>> ELSE IF c = 64067 THEN <<26257>> ELSE IF c =
            64068 THEN <<26757>> ELSE IF c = 64069 THEN <<28023>> ELSE <<c>>
            ELSE IF c < 64073 THEN IF c = 64070 THEN <<28186>> ELSE IF c =
            64071 THEN <<28450>> ELSE IF c = 64072 THEN <<29038>> ELSE <<c>>
            ELSE IF c = 64073 THEN <<29227>> ELSE IF c = 64074 THEN <<29730>>
            ELSE IF c = 64075 THEN <<30865>> ELSE <<c>> ELSE IF c < 64099 THEN
            IF c < 64087 THEN IF c < 64081 THEN IF c < 64078 THEN IF c = 64076
            THEN <<31038>> ELSE IF c = 64077 THEN <<31049>> ELSE <<c>> ELSE IF
            c = 64078 THEN <<31048>> ELSE IF c = 64079 THEN <<31056>> ELSE IF
            c = 64080 THEN <<31062>> ELSE <<c>> ELSE IF c < 64084 THEN IF c =
            64081 THEN <<31069>> ELSE IF c = 64082 THEN <<31117>> ELSE IF c =
            64083 THEN <<31118>> ELSE <<c>> ELSE IF c = 64084 THEN <<31296>>
            ELSE IF c = 64085 THEN <<31361>> ELSE IF c = 64086 THEN <<31680>>
            ELSE <<c>> ELSE IF c < 64093 THEN IF c < 64090 THEN IF c = 64087
            THEN <<32244>> ELSE IF c = 64088 THEN <<32265>> ELSE IF c = 64089
            THEN <<32321>> ELSE <<c>> ELSE IF c = 64090 THEN <<32626>> ELSE IF
            c = 64091 THEN <<32773>> ELSE IF c = 64092 THEN <<33261>> ELSE
            <<c>> ELSE IF c < 64096 THEN IF c = 64093 THEN <<33401>> ELSE IF c
            = 64094 THEN <<33401>> ELSE IF c = 64095 THEN <<33879>> ELSE <<c>>
            ELSE IF c = 64096 THEN <<35088>> ELSE IF c = 64097 THEN <<35222>>
            ELSE IF c = 64098 THEN <<35585>> ELSE <<c>> ELSE IF c < 64112 THEN
            IF c < 64104 THEN IF c < 64101 THEN IF c = 64099 THEN <<35641>>
            ELSE IF c = 64100 THEN <<36051>> ELSE <<c>> ELSE IF c = 64101 THEN
            <<36104>> ELSE IF c = 64102 THEN <<36790>> ELSE IF c = 64103 THEN
            <<36920>> ELSE <<c>> ELSE IF c < 64107 THEN IF c = 64104 THEN
            <<38627>> ELSE IF c = 64105 THEN <<38911>> ELSE IF c = 64106 THEN
            <<38971>> ELSE <<c>> ELSE IF c = 64107 THEN <<24693>> ELSE IF c =
            64108 THEN <<148206>> ELSE IF c = 64109 THEN <<33304>> ELSE <<c>>
            ELSE IF c < 64118 THEN IF c < 64115 THEN IF c = 64112 THEN
            <<20006>> ELSE IF c = 64113 THEN <<20917>> ELSE IF c = 64114 THEN
            <<20840>> ELSE <<c>> ELSE IF c = 64115 THEN <<20352>> ELSE IF c =
            64116 THEN <<20805>> ELSE IF c = 64117 THEN <<20864>> ELSE <<c>>
            ELSE IF c < 64121 THEN IF c = 64118 THEN <<21191>> ELSE IF c =
            64119 THEN <<21242>> ELSE IF c = 64120 THEN <<21917>> ELSE <<c>>
            ELSE IF c = 64121 THEN <<21845>> ELSE IF c = 64122 THEN <<21913>>
            ELSE IF c = 64123 THEN <<21986>> ELSE <<c>> ELSE IF c < 64215 THEN
            IF c < 64169 THEN IF c < 64146 THEN IF c < 64135 THEN IF c < 64129
            THEN IF c < 64126 THEN IF c = 64124 THEN <<22618>> ELSE IF c =
            64125 THEN <<22707>> ELSE <<c>> ELSE IF c = 64126 THEN <<22852>>
            ELSE IF c = 64127 THEN <<22868>> ELSE IF c = 64128 THEN <<23138>>
            ELSE <<c>> ELSE IF c < 64132 THEN IF c = 64129 THEN <<23336>> ELSE
            IF c = 64130 THEN <<24274>> ELSE IF c = 64131 THEN <<24281>> ELSE
            <<c>> ELSE IF c = 64132 THEN <<24425>> ELSE IF c = 64133 THEN
            <<24493>> ELSE IF c = 64134 THEN <<24792>> ELSE <<c>> ELSE IF c <
            64140 THEN IF c < 64137 THEN IF c = 64135 THEN <<24910>> ELSE IF c
            = 64136 THEN <<24840>> ELSE <<c>> ELSE IF c = 64137 THEN <<24974>>
            ELSE IF c = 64138 THEN <<24928>> ELSE IF c = 64139 THEN <<25074>>
            ELSE <<c>> ELSE IF c < 64143 THEN IF c = 64140 THEN <<25140>> ELSE
            IF c = 64141 THEN <<25540>> ELSE IF c = 64142 THEN <<25628>> ELSE
            <<c>> ELSE IF c = 64143 THEN <<25682>> ELSE IF c = 64144 THEN
            <<25942>> ELSE IF c = 64145 THEN <<26228>> ELSE <<c>> ELSE IF c <
            64157 THEN IF c < 64151 THEN IF c < 64148 THEN IF c = 64146 THEN
            <<26391>> ELSE IF c = 64147 THEN <<26395>> ELSE <<c>> ELSE IF c =
            64148 THEN <<26454>> ELSE IF c = 64149 THEN <<27513>> ELSE IF c =
            64150 THEN <<27578>> ELSE <<c>> ELSE IF c < 64154 THEN IF c =
            64151 THEN <<27969>> ELSE IF c = 64152 THEN <<28379>> ELSE IF c =
            64153 THEN <<28363>> ELSE <<c>> ELSE IF c = 64154 THEN <<28450>>
            ELSE IF c = 64155 THEN <<28702>> ELSE IF c = 64156 THEN <<29038>>
            ELSE <<c>> ELSE IF c < 64163 THEN IF c < 64160 THEN IF c = 64157
            THEN <<30631>> ELSE IF c = 64158 THEN <<29237>> ELSE IF c = 64159
            THEN <<29359>> ELSE <<c>> ELSE IF c = 64160 THEN <<29482>> ELSE IF
            c = 64161 THEN <<29809>> ELSE IF c = 64162 THEN <<29958>> ELSE
            <<c>> ELSE IF c < 64166 THEN IF c = 64163 THEN <<30011>> ELSE IF c
            = 64164 THEN <<30237>> ELSE IF c = 64165 THEN <<30239>> ELSE <<c>>
            ELSE IF c = 64166 THEN <<30410>> ELSE IF c = 64167 THEN <<30427>>
            ELSE IF c = 64168 THEN <<30452>> ELSE <<c>> ELSE IF c < 64192 THEN
            IF c < 64180 THEN IF c < 64174 THEN IF c < 64171 THEN IF c = 64169
            THEN <<30538>> ELSE IF c = 64170 THEN <<30528>> ELSE <<c>> ELSE IF
            c = 64171 THEN <<30924>> ELSE IF c = 64172 THEN <<31409>> ELSE IF
            c = 64173 THEN <<31680>> ELSE <<c>> ELSE IF c < 64177 THEN IF c =
            64174 THEN <<31867>> ELSE IF c = 64175 THEN <<32091>> ELSE IF c =
            64176 THEN <<32244>> ELSE <<c>> ELSE IF c = 64177 THEN <<32574>>
            ELSE IF c = 64178 THEN <<32773>> ELSE IF c = 64179 THEN <<33618>>
            ELSE <<c>> ELSE IF c < 64186 THEN IF c < 64183 THEN IF c = 64180
            THEN <<33775>> ELSE IF c = 64181 THEN <<34681>> ELSE IF c = 64182
            THEN <<35137>> ELSE <<c>> ELSE IF c = 64183 THEN <<35206>> ELSE IF
            c = 64184 THEN <<35222>> ELSE IF c = 64185 THEN <<35519>> ELSE
            <<c>> ELSE IF c < 64189 THEN IF c = 64186 THEN <<35576>> ELSE IF c
            = 64187 THEN <<35531>> ELSE IF c = 64188 THEN <<35585>> ELSE <<c>>
            ELSE IF c = 64189 THEN <<35582>> ELSE IF c = 64190 THEN <<35565>>
            ELSE IF c = 64191 THEN <<35641>> ELSE <<c>> ELSE IF c < 64203 THEN
            IF c < 64197 THEN IF c < 64194 THEN IF c = 64192 THEN <<35722>>
            ELSE IF c = 64193 THEN <<36104>> ELSE <<c>> ELSE IF c = 64194 THEN
            <<36664>> ELSE IF c = 64195 THEN <<36978>> ELSE IF c = 64196 THEN
            <<37273>> ELSE <<c>> ELSE IF c < 64200 THEN IF c = 64197 THEN
            <<37494>> ELSE IF c = 64198 THEN <<38524>> ELSE IF c = 64199 THEN
            <<38627>> ELSE <<c>> ELSE IF c = 64200 THEN <<38742>> ELSE IF c =
            64201 THEN <<38875>> ELSE IF c = 64202 THEN <<38911>> ELSE <<c>>
            ELSE IF c < 64209 THEN IF c < 64206 THEN IF c = 64203 THEN
            <<38923>> ELSE IF c = 64204 THEN <<38971>> ELSE IF c = 64205 THEN
            <<39698>> ELSE <<c>> ELSE IF c = 64206 THEN <<40860>> ELSE IF c =
            64207 THEN <<141386>> ELSE IF c = 64208 THEN <<141380>> ELSE <<c>>
            ELSE IF c < 64212 THEN IF c = 64209 THEN <<144341>> ELSE IF c =
            64210 THEN <<15261>> ELSE IF c = 64211 THEN <<16408>> ELSE <<c>>
            ELSE IF c = 64212 THEN <<16441>> ELSE IF c = 64213 THEN <<152137>>
            ELSE IF c = 64214 THEN <<154832>> ELSE <<c>> ELSE IF c < 64318
            THEN IF c < 64293 THEN IF c < 64276 THEN IF c < 64258 THEN IF c <
            64217 THEN IF c = 64215 THEN <<163539>> ELSE IF c = 64216 THEN
            <<40771>> ELSE <<c>> ELSE IF c = 64217 THEN <<40846>> ELSE IF c =
            64256 THEN <<102,102>> ELSE IF c = 64257 THEN <<102,105>> ELSE
            <<c>> ELSE IF c < 64261 THEN IF c = 64258 THEN <<102,108>> ELSE IF
            c = 64259 THEN <<102,102,105>> ELSE IF c = 64260 THEN
            <<102,102,108>> ELSE <<c>> ELSE IF c = 64261 THEN <<115,116>> ELSE
            IF c = 64262 THEN <<115,116>> ELSE IF c = 64275 THEN <<1396,1398>>
            ELSE <<c>> ELSE IF c < 64287 THEN IF c < 64278 THEN IF c = 64276
            THEN <<1396,1381>> ELSE IF c = 64277 THEN <<1396,1387>> ELSE <<c>>
            ELSE IF c = 64278 THEN <<1406,1398>> ELSE IF c = 64279 THEN
            <<1396,1389>> ELSE IF c = 64285 THEN <<1497,1460>> ELSE <<c>> ELSE
            IF c < 64290 THEN IF c = 64287 THEN <<1522,1463>> ELSE IF c =
            64288 THEN <<1506>> ELSE IF c = 64289 THEN <<1488>> ELSE <<c>>
            ELSE IF c = 64290 THEN <<1491>> ELSE IF c = 64291 THEN <<1492>>
            ELSE IF c = 64292 THEN <<1499>> ELSE <<c>> ELSE IF c < 64304 THEN
            IF c < 64298 THEN IF c < 64295 THEN IF c = 64293 THEN <<1500>>
            ELSE IF c = 64294 THEN <<1501>> ELSE <<c>> ELSE IF c = 64295 THEN
            <<1512>> ELSE IF c = 64296 THEN <<1514>> ELSE IF c = 64297 THEN
            <<43>> ELSE <<c>> ELSE IF c < 64301 THEN IF c = 64298 THEN
            <<1513,1473>> ELSE IF c = 64299 THEN <<1513,1474>> ELSE IF c =
            64300 THEN <<1513,1468,1473>> ELSE <<c>> ELSE IF c = 64301 THEN
            <<1513,1468,1474>> ELSE IF c = 64302 THEN <<1488,1463>> ELSE IF c
            = 64303 THEN <<1488,1464>> ELSE <<c>> ELSE IF c < 64310 THEN IF c
            < 64307 THEN IF c = 64304 THEN <<1488,1468>> ELSE IF c = 64305
            THEN <<1489,1468>> ELSE IF c = 64306 THEN <<1490,1468>> ELSE <<c>>
            ELSE IF c = 64307 THEN <<1491,1468>> ELSE IF c = 64308 THEN
            <<1492,1468>> ELSE IF c = 64309 THEN <<1493,1468>> ELSE <<c>> ELSE
            IF c < 64314 THEN IF c = 64310 THEN <<1494,1468>> ELSE IF c =
            64312 THEN <<1496,1468>> ELSE IF c = 64313 THEN <<1497,1468>> ELSE
            <<c>> ELSE IF c = 64314 THEN <<1498,1468>> ELSE IF c = 64315 THEN
            <<1499,1468>> ELSE IF c = 64316 THEN <<1500,1468>> ELSE <<c>> ELSE
            IF c < 64344 THEN IF c < 64332 THEN IF c < 64326 THEN IF c < 64321
            THEN IF c = 64318 THEN <<1502,1468>> ELSE IF c = 64320 THEN
            <<1504,1468>> ELSE <<c>> ELSE IF c = 64321 THEN <<1505,1468>> ELSE
            IF c = 64323 THEN <<1507,1468>> ELSE IF c = 64324 THEN
            <<1508,1468>> ELSE <<c>> ELSE IF c < 64329 THEN IF c = 64326 THEN
            <<1510,1468>> ELSE IF c = 64327 THEN <<1511,1468>> ELSE IF c =
            64328 THEN <<1512,1468>> ELSE <<c>> ELSE IF c = 64329 THEN
            <<1513,1468>> ELSE IF c = 64330 THEN <<1514,1468>> ELSE IF c =
            64331 THEN <<1493,1465>> ELSE <<c>> ELSE IF c < 64338 THEN IF c <
            64335 THEN IF c = 64332 THEN <<1489,1471>> ELSE IF c = 64333 THEN
            <<1499,1471>> ELSE IF c = 64334 THEN <<1508,1471>> ELSE <<c>> ELSE
            IF c = 64335 THEN <<1488,1500>> ELSE IF c = 64336 THEN <<1649>>
            ELSE IF c = 64337 THEN <<1649>> ELSE <<c>> ELSE IF c < 64341 THEN
            IF c = 64338 THEN <<1659>> ELSE IF c = 64339 THEN <<1659>> ELSE IF
            c = 64340 THEN <<1659>> ELSE <<c>> ELSE IF c = 64341 THEN <<1659>>
            ELSE IF c = 64342 THEN <<1662>> ELSE IF c = 64343 THEN <<1662>>
            ELSE <<c>> ELSE IF c < 64355 THEN IF c < 64349 THEN IF c < 64346
            THEN IF c = 64344 THEN <<1662>> ELSE IF c = 64345 THEN <<1662>>
            ELSE <<c>> ELSE IF c = 64346 THEN <<1664>> ELSE IF c = 64347 THEN
            <<1664>> ELSE IF c = 64348 THEN <<1664>> ELSE <<c>> ELSE IF c <
            64352 THEN IF c = 64349 THEN <<1664>> ELSE IF c = 64350 THEN
            <<1658>> ELSE IF c = 64351 THEN <<1658>> ELSE <<c>> ELSE IF c =
            64352 THEN <<1658>> ELSE IF c = 64353 THEN <<1658>> ELSE IF c =
            64354 THEN <<1663>> ELSE <<c>> ELSE IF c < 64361 THEN IF c < 64358
            THEN IF c = 64355 THEN <<1663>> ELSE IF c = 64356 THEN <<1663>>
            ELSE IF c = 64357 THEN <<1663>> ELSE <<c>> ELSE IF c = 64358 THEN
            <<1657>> ELSE IF c = 64359 THEN <<1657>> ELSE IF c = 64360 THEN
            <<1657>> ELSE <<c>> ELSE IF c < 64364 THEN IF c = 64361 THEN
            <<1657>> ELSE IF c = 64362 THEN <<1700>> ELSE IF c = 64363 THEN
            <<1700>> ELSE <<c>> ELSE IF c = 64364 THEN <<1700>> ELSE IF c =
            64365 THEN <<1700>> ELSE IF c = 64366 THEN <<1702>> ELSE <<c>>
            ELSE IF c < 120208 THEN IF c < 65235 THEN IF c < 64762 THEN IF c <
            64581 THEN IF c < 64490 THEN IF c < 64412 THEN IF c < 64389 THEN
            IF c < 64378 THEN IF c < 64372 THEN IF c < 64369 THEN IF c = 64367
            THEN <<1702>> ELSE IF c = 64368 THEN <<1702>> ELSE <<c>> ELSE IF c
            = 64369 THEN <<1702>> ELSE IF c = 64370 THEN <<1668>> ELSE IF c =
            64371 THEN <<1668>> ELSE <<c>> ELSE IF c < 64375 THEN IF c = 64372
            THEN <<1668>> ELSE IF c = 64373 THEN <<1668>> ELSE IF c = 64374
            THEN <<1667>> ELSE <<c>> ELSE IF c = 64375 THEN <<1667>> ELSE IF c
            = 64376 THEN <<1667>> ELSE IF c = 64377 THEN <<1667>> ELSE <<c>>
            ELSE IF c < 64383 THEN IF c < 64380 THEN IF c = 64378 THEN
            <<1670>> ELSE IF c = 64379 THEN <<1670>> ELSE <<c>> ELSE IF c =
            64380 THEN <<1670>> ELSE IF c = 64381 THEN <<1670>> ELSE IF c =
            64382 THEN <<1671>> ELSE <<c>> ELSE IF c < 64386 THEN IF c = 64383
            THEN <<1671>> ELSE IF c = 64384 THEN <<1671>> ELSE IF c = 64385
            THEN <<1671>> ELSE <<c>> ELSE IF c = 64386 THEN <<1677>> ELSE IF c
            = 64387 THEN <<1677>> ELSE IF c = 64388 THEN <<1676>> ELSE <<c>>
            ELSE IF c < 64400 THEN IF c < 64394 THEN IF c < 64391 THEN IF c =
            64389 THEN <<1676>> ELSE IF c = 64390 THEN <<1678>> ELSE <<c>>
            ELSE IF c = 64391 THEN <<1678>> ELSE IF c = 64392 THEN <<1672>>
            ELSE IF c = 64393 THEN <<1672>> ELSE <<c>> ELSE IF c < 64397 THEN
            IF c = 64394 THEN <<1688>> ELSE IF c = 64395 THEN <<1688>> ELSE IF
            c = 64396 THEN <<1681>> ELSE <<c>> ELSE IF c = 64397 THEN <<1681>>
            ELSE IF c = 64398 THEN <<1705>> ELSE IF c = 64399 THEN <<1705>>
            ELSE <<c>> ELSE IF c < 64406 THEN IF c < 64403 THEN IF c = 64400
            THEN <<1705>> ELSE IF c = 64401 THEN <<1705>> ELSE IF c = 64402
            THEN <<1711>> ELSE <<c>> ELSE IF c = 64403 THEN <<1711>> ELSE IF c
            = 64404 THEN <<1711>> ELSE IF c = 64405 THEN <<1711>> ELSE <<c>>
            ELSE IF c < 64409 THEN IF c = 64406 THEN <<1715>> ELSE IF c =
            64407 THEN <<1715>> ELSE IF c = 64408 THEN <<1715>> ELSE <<c>>
            ELSE IF c = 64409 THEN <<1715>> ELSE IF c = 64410 THEN <<1713>>
            ELSE IF c = 64411 THEN <<1713>> ELSE <<c>> ELSE IF c < 64467 THEN
            IF c < 64423 THEN IF c < 64417 THEN IF c < 64414 THEN IF c = 64412
            THEN <<1713>> ELSE IF c = 64413 THEN <<1713>> ELSE <<c>> ELSE IF c
            = 64414 THEN <<1722>> ELSE IF c = 64415 THEN <<1722>> ELSE IF c =
            64416 THEN <<1723>> ELSE <<c>> ELSE IF c < 64420 THEN IF c = 64417
            THEN <<1723>> ELSE IF c = 64418 THEN <<1723>> ELSE IF c = 64419
            THEN <<1723>> ELSE <<c>> ELSE IF c = 64420 THEN <<1749,1620>> ELSE
            IF c = 64421 THEN <<1749,1620>> ELSE IF c = 64422 THEN <<1729>>
            ELSE <<c>> ELSE IF c < 64428 THEN IF c < 64425 THEN IF c = 64423
            THEN <<1729>> ELSE IF c = 64424 THEN <<1729>> ELSE <<c>> ELSE IF c
            = 64425 THEN <<1729>> ELSE IF c = 64426 THEN <<1726>> ELSE IF c =
            64427 THEN <<1726>> ELSE <<c>> ELSE IF c < 64431 THEN IF c = 64428
            THEN <<1726>> ELSE IF c = 64429 THEN <<1726>> ELSE IF c = 64430
            THEN <<1746>> ELSE <<c>> ELSE IF c = 64431 THEN <<1746>> ELSE IF c
            = 64432 THEN <<1746,1620>> ELSE IF c = 64433 THEN <<1746,1620>>
            ELSE <<c>> ELSE IF c < 64478 THEN IF c < 64472 THEN IF c < 64469
            THEN IF c = 64467 THEN <<1709>> ELSE IF c = 64468 THEN <<1709>>
            ELSE <<c>> ELSE IF c = 64469 THEN <<1709>> ELSE IF c = 64470 THEN
            <<1709>> ELSE IF c = 64471 THEN <<1735>> ELSE <<c>> ELSE IF c <
            64475 THEN IF c = 64472 THEN <<1735>> ELSE IF c = 64473 THEN
            <<1734>> ELSE IF c = 64474 THEN <<1734>> ELSE <<c>> ELSE IF c =
            64475 THEN <<1736>> ELSE IF c = 64476 THEN <<1736>> ELSE IF c =
            64477 THEN <<1735,1652>> ELSE <<c>> ELSE IF c < 64484 THEN IF c <
            64481 THEN IF c = 64478 THEN <<1739>> ELSE IF c = 64479 THEN
            <<1739>> ELSE IF c = 64480 THEN <<1733>> ELSE <<c>> ELSE IF c =
            64481 THEN <<1733>> ELSE IF c = 64482 THEN <<1737>> ELSE IF c =
            64483 THEN <<1737>> ELSE <<c>> ELSE IF c < 64487 THEN IF c = 64484
            THEN <<1744>> ELSE IF c = 64485 THEN <<1744>> ELSE IF c = 64486
            THEN <<1744>> ELSE <<c>> ELSE IF c = 64487 THEN <<1744>> ELSE IF c
            = 64488 THEN <<1609>> ELSE IF c = 64489 THEN <<1609>> ELSE <<c>>
            ELSE IF c < 64535 THEN IF c < 64512 THEN IF c < 64501 THEN IF c <
            64495 THEN IF c < 64492 THEN IF c = 64490 THEN <<1610,1620,1575>>
            ELSE IF c = 64491 THEN <<1610,1620,1575>> ELSE <<c>> ELSE IF c =
            64492 THEN <<1610,1620,1749>> ELSE IF c = 64493 THEN
            <<1610,1620,1749>> ELSE IF c = 64494 THEN <<1610,1620,1608>> ELSE
            <<c>> ELSE IF c < 64498 THEN IF c = 64495 THEN <<1610,1620,1608>>
            ELSE IF c = 64496 THEN <<1610,1620,1735>> ELSE IF c = 64497 THEN
            <<1610,1620,1735>> ELSE <<c>> ELSE IF c = 64498 THEN
            <<1610,1620,1734>> ELSE IF c = 64499 THEN <<1610,1620,1734>> ELSE
            IF c = 64500 THEN <<1610,1620,1736>> ELSE <<c>> ELSE IF c < 64506
            THEN IF c < 64503 THEN IF c = 64501 THEN <<1610,1620,1736>> ELSE
            IF c = 64502 THEN <<1610,1620,1744>> ELSE <<c>> ELSE IF c = 64503
            THEN <<1610,1620,1744>> ELSE IF c = 64504 THEN <<1610,1620,1744>>
            ELSE IF c = 64505 THEN <<1610,1620,1609>> ELSE <<c>> ELSE IF c <
            64509 THEN IF c = 64506 THEN <<1610,1620,1609>> ELSE IF c = 64507
            THEN <<1610,1620,1609>> ELSE IF c = 64508 THEN <<1740>> ELSE <<c>>
            ELSE IF c = 64509 THEN <<1740>> ELSE IF c = 64510 THEN <<1740>>
            ELSE IF c = 64511 THEN <<1740>> ELSE <<c>> ELSE IF c < 64523 THEN
            IF c < 64517 THEN IF c < 64514 THEN IF c = 64512 THEN
            <<1610,1620,1580>> ELSE IF c = 64513 THEN <<1610,1620,1581>> ELSE
            <<c>> ELSE IF c = 64514 THEN <<1610,1620,1605>> ELSE IF c = 64515
            THEN <<1610,1620,1609>> ELSE IF c = 64516 THEN <<1610,1620,1610>>
            ELSE <<c>> ELSE IF c < 64520 THEN IF c = 64517 THEN <<1576,1580>>
            ELSE IF c = 64518 THEN <<1576,1581>> ELSE IF c = 64519 THEN
            <<1576,1582>> ELSE <<c>> ELSE IF c = 64520 THEN <<1576,1605>> ELSE
            IF c = 64521 THEN <<1576,1609>> ELSE IF c = 64522 THEN
            <<1576,1610>> ELSE <<c>> ELSE IF c < 64529 THEN IF c < 64526 THEN
            IF c = 64523 THEN <<1578,1580>> ELSE IF c = 64524 THEN
            <<1578,1581>> ELSE IF c = 64525 THEN <<1578,1582>> ELSE <<c>> ELSE
            IF c = 64526 THEN <<1578,1605>> ELSE IF c = 64527 THEN
            <<1578,1609>> ELSE IF c = 64528 THEN <<1578,1610>> ELSE <<c>> ELSE
            IF c < 64532 THEN IF c = 64529 THEN <<1579,1580>> ELSE IF c =
            64530 THEN <<1579,1605>> ELSE IF c = 64531 THEN <<1579,1609>> ELSE
            <<c>> ELSE IF c = 64532 THEN <<1579,1610>> ELSE IF c = 64533 THEN
            <<1580,1581>> ELSE IF c = 64534 THEN <<1580,1605>> ELSE <<c>> ELSE
            IF c < 64558 THEN IF c < 64546 THEN IF c < 64540 THEN IF c < 64537
            THEN IF c = 64535 THEN <<1581,1580>> ELSE IF c = 64536 THEN
            <<1581,1605>> ELSE <<c>> ELSE IF c = 64537 THEN <<1582,1580>> ELSE
            IF c = 64538 THEN <<1582,1581>> ELSE IF c = 64539 THEN
            <<1582,1605>> ELSE <<c>> ELSE IF c < 64543 THEN IF c = 64540 THEN
            <<1587,1580>> ELSE IF c = 64541 THEN <<1587,1581>> ELSE IF c =
            64542 THEN <<1587,1582>> ELSE <<c>> ELSE IF c = 64543 THEN
            <<1587,1605>> ELSE IF c = 64544 THEN <<1589,1581>> ELSE IF c =
            64545 THEN <<1589,1605>> ELSE <<c>> ELSE IF c < 64552 THEN IF c <
            64549 THEN IF c = 64546 THEN <<1590,1580>> ELSE IF c = 64547 THEN
            <<1590,1581>> ELSE IF c = 64548 THEN <<1590,1582>> ELSE <<c>> ELSE
            IF c = 64549 THEN <<1590,1605>> ELSE IF c = 64550 THEN
            <<1591,1581>> ELSE IF c = 64551 THEN <<1591,1605>> ELSE <<c>> ELSE
            IF c < 64555 THEN IF c = 64552 THEN <<1592,1605>> ELSE IF c =
            64553 THEN <<1593,1580>> ELSE IF c = 64554 THEN <<1593,1605>> ELSE
            <<c>> ELSE IF c = 64555 THEN <<1594,1580>> ELSE IF c = 64556 THEN
            <<1594,1605>> ELSE IF c = 64557 THEN <<1601,1580>> ELSE <<c>> ELSE
            IF c < 64569 THEN IF c < 64563 THEN IF c < 64560 THEN IF c = 64558
            THEN <<1601,1581>> ELSE IF c = 64559 THEN <<1601,1582>> ELSE <<c>>
            ELSE IF c = 64560 THEN <<1601,1605>> ELSE IF c = 64561 THEN
            <<1601,1609>> ELSE IF c = 64562 THEN <<1601,1610>> ELSE <<c>> ELSE
            IF c < 64566 THEN IF c = 64563 THEN <<1602,1581>> ELSE IF c =
            64564 THEN <<1602,1605>> ELSE IF c = 64565 THEN <<1602,1609>> ELSE
            <<c>> ELSE IF c = 64566 THEN <<1602,1610>> ELSE IF c = 64567 THEN
            <<1603,1575>> ELSE IF c = 64568 THEN <<1603,1580>> ELSE <<c>> ELSE
            IF c < 64575 THEN IF c < 64572 THEN IF c = 64569 THEN
            <<1603,1581>> ELSE IF c = 64570 THEN <<1603,1582>> ELSE IF c =
            64571 THEN <<1603,1604>> ELSE <<c>> ELSE IF c = 64572 THEN
            <<1603,1605>> ELSE IF c = 64573 THEN <<1603,1609>> ELSE IF c =
            64574 THEN <<1603,1610>> ELSE <<c>> ELSE IF c < 64578 THEN IF c =
            64575 THEN <<1604,1580>> ELSE IF c = 64576 THEN <<1604,1581>> ELSE
            IF c = 64577 THEN <<1604,1582>> ELSE <<c>> ELSE IF c = 64578 THEN
            <<1604,1605>> ELSE IF c = 64579 THEN <<1604,1609>> ELSE IF c =
            64580 THEN <<1604,1610>> ELSE <<c>> ELSE IF c < 64671 THEN IF c <
            64626 THEN IF c < 64603 THEN IF c < 64592 THEN IF c < 64586 THEN
            IF c < 64583 THEN IF c = 64581 THEN <<1605,1580>> ELSE IF c =
            64582 THEN <<1605,1581>> ELSE <<c>> ELSE IF c = 64583 THEN
            <<1605,1582>> ELSE IF c = 64584 THEN <<1605,1605>> ELSE IF c =
            64585 THEN <<1605,1609>> ELSE <<c>> ELSE IF c < 64589 THEN IF c =
            64586 THEN <<1605,1610>> ELSE IF c = 64587 THEN <<1606,1580>> ELSE
            IF c = 64588 THEN <<1606,1581>> ELSE <<c>> ELSE IF c = 64589 THEN
            <<1606,1582>> ELSE IF c = 64590 THEN <<1606,1605>> ELSE IF c =
            64591 THEN <<1606,1609>> ELSE <<c>> ELSE IF c < 64597 THEN IF c <
            64594 THEN IF c = 64592 THEN <<1606,1610>> ELSE IF c = 64593 THEN
            <<1607,1580>> ELSE <<c>> ELSE IF c = 64594 THEN <<1607,1605>> ELSE
            IF c = 64595 THEN <<1607,1609>> ELSE IF c = 64596 THEN
            <<1607,1610>> ELSE <<c>> ELSE IF c < 64600 THEN IF c = 64597 THEN
            <<1610,1580>> ELSE IF c = 64598 THEN <<1610,1581>> ELSE IF c =
            64599 THEN <<1610,1582>> ELSE <<c>> ELSE IF c = 64600 THEN
            <<1610,1605>> ELSE IF c = 64601 THEN <<1610,1609>> ELSE IF c =
            64602 THEN <<1610,1610>> ELSE <<c>> ELSE IF c < 64614 THEN IF c <
            64608 THEN IF c < 64605 THEN IF c = 64603 THEN <<1584,1648>> ELSE
            IF c = 64604 THEN <<1585,1648>> ELSE <<c>> ELSE IF c = 64605 THEN
            <<1609,1648>> ELSE IF c = 64606 THEN <<32,1612,1617>> ELSE IF c =
            64607 THEN <<32,1613,1617>> ELSE <<c>> ELSE IF c < 64611 THEN IF c
            = 64608 THEN <<32,1614,1617>> ELSE IF c = 64609 THEN
            <<32,1615,1617>> ELSE IF c = 64610 THEN <<32,1616,1617>> ELSE
            <<c>> ELSE IF c = 64611 THEN <<32,1617,1648>> ELSE IF c = 64612
            THEN <<1610,1620,1585>> ELSE IF c = 64613 THEN <<1610,1620,1586>>
            ELSE <<c>> ELSE IF c < 64620 THEN IF c < 64617 THEN IF c = 64614
            THEN <<1610,1620,1605>> ELSE IF c = 64615 THEN <<1610,1620,1606>>
            ELSE IF c = 64616 THEN <<1610,1620,1609>> ELSE <<c>> ELSE IF c =
            64617 THEN <<1610,1620,1610>> ELSE IF c = 64618 THEN <<1576,1585>>
            ELSE IF c = 64619 THEN <<1576,1586>> ELSE <<c>> ELSE IF c < 64623
            THEN IF c = 64620 THEN <<1576,1605>> ELSE IF c = 64621 THEN
            <<1576,1606>> ELSE IF c = 64622 THEN <<1576,1609>> ELSE <<c>> ELSE
            IF c = 64623 THEN <<1576,1610>> ELSE IF c = 64624 THEN
            <<1578,1585>> ELSE IF c = 64625 THEN <<1578,1586>> ELSE <<c>> ELSE
            IF c < 64648 THEN IF c < 64637 THEN IF c < 64631 THEN IF c < 64628
            THEN IF c = 64626 THEN <<1578,1605>> ELSE IF c = 64627 THEN
            <<1578,1606>> ELSE <<c>> ELSE IF c = 64628 THEN <<1578,1609>> ELSE
            IF c = 64629 THEN <<1578,1610>> ELSE IF c = 64630 THEN
            <<1579,1585>> ELSE <<c>> ELSE IF c < 64634 THEN IF c = 64631 THEN
            <<1579,1586>> ELSE IF c = 64632 THEN <<1579,1605>> ELSE IF c =
            64633 THEN <<1579,1606>> ELSE <<c>> ELSE IF c = 64634 THEN
            <<1579,1609>> ELSE IF c = 64635 THEN <<1579,1610>> ELSE IF c =
            64636 THEN <<1601,1609>> ELSE <<c>> ELSE IF c < 64642 THEN IF c <
            64639 THEN IF c = 64637 THEN <<1601,1610>> ELSE IF c = 64638 THEN
            <<1602,1609>> ELSE <<c>> ELSE IF c = 64639 THEN <<1602,1610>> ELSE
            IF c = 64640 THEN <<1603,1575>> ELSE IF c = 64641 THEN
            <<1603,1604>> ELSE <<c>> ELSE IF c < 64645 THEN IF c = 64642 THEN
            <<1603,1605>> ELSE IF c = 64643 THEN <<1603,1609>> ELSE IF c =
            64644 THEN <<1603,1610>> ELSE <<c>> ELSE IF c = 64645 THEN
            <<1604,1605>> ELSE IF c = 64646 THEN <<1604,1609>> ELSE IF c =
            64647 THEN <<1604,1610>> ELSE <<c>> ELSE IF c < 64659 THEN IF c <
            64653 THEN IF c < 64650 THEN IF c = 64648 THEN <<1605,1575>> ELSE
            IF c = 64649 THEN <<1605,1605>> ELSE <<c>> ELSE IF c = 64650 THEN
            <<1606,1585>> ELSE IF c = 64651 THEN <<1606,1586>> ELSE IF c =
            64652 THEN <<1606,1605>> ELSE <<c>> ELSE IF c < 64656 THEN IF c =
            64653 THEN <<1606,1606>> ELSE IF c = 64654 THEN <<1606,1609>> ELSE
            IF c = 64655 THEN <<1606,1610>> ELSE <<c>> ELSE IF c = 64656 THEN
            <<1609,1648>> ELSE IF c = 64657 THEN <<1610,1585>> ELSE IF c =
            64658 THEN <<1610,1586>> ELSE <<c>> ELSE IF c < 64665 THEN IF c <
            64662 THEN IF c = 64659 THEN <<1610,1605>> ELSE IF c = 64660 THEN
            <<1610,1606>> ELSE IF c = 64661 THEN <<1610,1609>> ELSE <<c>> ELSE
            IF c = 64662 THEN <<1610,1610>> ELSE IF c = 64663 THEN
            <<1610,1620,1580>> ELSE IF c = 64664 THEN <<1610,1620,1581>> ELSE
            <<c>> ELSE IF c < 64668 THEN IF c = 64665 THEN <<1610,1620,1582>>
            ELSE IF c = 64666 THEN <<1610,1620,1605>> ELSE IF c = 64667 THEN
            <<1610,1620,1607>> ELSE <<c>> ELSE IF c = 64668 THEN <<1576,1580>>
            ELSE IF c = 64669 THEN <<1576,1581>> ELSE IF c = 64670 THEN
            <<1576,1582>> ELSE <<c>> ELSE IF c < 64716 THEN IF c < 64693 THEN
            IF c < 64682 THEN IF c < 64676 THEN IF c < 64673 THEN IF c = 64671
            THEN <<1576,1605>> ELSE IF c = 64672 THEN <<1576,1607>> ELSE <<c>>
            ELSE IF c = 64673 THEN <<1578,1580>> ELSE IF c = 64674 THEN
            <<1578,1581>> ELSE IF c = 64675 THEN <<1578,1582>> ELSE <<c>> ELSE
            IF c < 64679 THEN IF c = 64676 THEN <<1578,1605>> ELSE IF c =
            64677 THEN <<1578,1607>> ELSE IF c = 64678 THEN <<1579,1605>> ELSE
            <<c>> ELSE IF c = 64679 THEN <<1580,1581>> ELSE IF c = 64680 THEN
            <<1580,1605>> ELSE IF c = 64681 THEN <<1581,1580>> ELSE <<c>> ELSE
            IF c < 64687 THEN IF c < 64684 THEN IF c = 64682 THEN
            <<1581,1605>> ELSE IF c = 64683 THEN <<1582,1580>> ELSE <<c>> ELSE
            IF c = 64684 THEN <<1582,1605>> ELSE IF c = 64685 THEN
            <<1587,1580>> ELSE IF c = 64686 THEN <<1587,1581>> ELSE <<c>> ELSE
            IF c < 64690 THEN IF c = 64687 THEN <<1587,1582>> ELSE IF c =
            64688 THEN <<1587,1605>> ELSE IF c = 64689 THEN <<1589,1581>> ELSE
            <<c>> ELSE IF c = 64690 THEN <<1589,1582>> ELSE IF c = 64691 THEN
            <<1589,1605>> ELSE IF c = 64692 THEN <<1590,1580>> ELSE <<c>> ELSE
            IF c < 64704 THEN IF c < 64698 THEN IF c < 64695 THEN IF c = 64693
            THEN <<1590,1581>> ELSE IF c = 64694 THEN <<1590,1582>> ELSE <<c>>
            ELSE IF c = 64695 THEN <<1590,1605>> ELSE IF c = 64696 THEN
            <<1591,1581>> ELSE IF c = 64697 THEN <<1592,1605>> ELSE <<c>> ELSE
            IF c < 64701 THEN IF c = 64698 THEN <<1593,1580>> ELSE IF c =
            64699 THEN <<1593,1605>> ELSE IF c = 64700 THEN <<1594,1580>> ELSE
            <<c>> ELSE IF c = 64701 THEN <<1594,1605>> ELSE IF c = 64702 THEN
            <<1601,1580>> ELSE IF c = 64703 THEN <<1601,1581>> ELSE <<c>> ELSE
            IF c < 64710 THEN IF c < 64707 THEN IF c = 64704 THEN
            <<1601,1582>> ELSE IF c = 64705 THEN <<1601,1605>> ELSE IF c =
            64706 THEN <<1602,1581>> ELSE <<c>> ELSE IF c = 64707 THEN
            <<1602,1605>> ELSE IF c = 64708 THEN <<1603,1580>> ELSE IF c =
            64709 THEN <<1603,1581>> ELSE <<c>> ELSE IF c < 64713 THEN IF c =
            64710 THEN <<1603,1582>> ELSE IF c = 64711 THEN <<1603,1604>> ELSE
            IF c = 64712 THEN <<1603,1605>> ELSE <<c>> ELSE IF c = 64713 THEN
            <<1604,1580>> ELSE IF c = 64714 THEN <<1604,1581>> ELSE IF c =
            64715 THEN <<1604,1582>> ELSE <<c>> ELSE IF c < 64739 THEN IF c <
            64727 THEN IF c < 64721 THEN IF c < 64718 THEN IF c = 64716 THEN
            <<1604,1605>> ELSE IF c = 64717 THEN <<1604,1607>> ELSE <<c>> ELSE
            IF c = 64718 THEN <<1605,1580>> ELSE IF c = 64719 THEN
            <<1605,1581>> ELSE IF c = 64720 THEN <<1605,1582>> ELSE <<c>> ELSE
            IF c < 64724 THEN IF c = 64721 THEN <<1605,1605>> ELSE IF c =
            64722 THEN <<1606,1580>> ELSE IF c = 64723 THEN <<1606,1581>> ELSE
            <<c>> ELSE IF c = 64724 THEN <<1606,1582>> ELSE IF c = 64725 THEN
            <<1606,1605>> ELSE IF c = 64726 THEN <<1606,1607>> ELSE <<c>> ELSE
            IF c < 64733 THEN IF c < 64730 THEN IF c = 64727 THEN
            <<1607,1580>> ELSE IF c = 64728 THEN <<1607,1605>> ELSE IF c =
            64729 THEN <<1607,1648>> ELSE <<c>> ELSE IF c = 64730 THEN
            <<1610,1580>> ELSE IF c = 64731 THEN <<1610,1581>> ELSE IF c =
            64732 THEN <<1610,1582>> ELSE <<c>> ELSE IF c < 64736 THEN IF c =
            64733 THEN <<1610,1605>> ELSE IF c = 64734 THEN <<1610,1607>> ELSE
            IF c = 64735 THEN <<1610,1620,1605>> ELSE <<c>> ELSE IF c = 64736
            THEN <<1610,1620,1607>> ELSE IF c = 64737 THEN <<1576,1605>> ELSE
            IF c = 64738 THEN <<1576,1607>> ELSE <<c>> ELSE IF c < 64750 THEN
            IF c < 64744 THEN IF c < 64741 THEN IF c = 64739 THEN
            <<1578,1605>> ELSE IF c = 64740 THEN <<1578,1607>> ELSE <<c>> ELSE
            IF c = 64741 THEN <<1579,1605>> ELSE IF c = 64742 THEN
            <<1579,1607>> ELSE IF c = 64743 THEN <<1587,1605>> ELSE <<c>> ELSE
            IF c < 64747 THEN IF c = 64744 THEN <<1587,1607>> ELSE IF c =
            64745 THEN <<1588,1605>> ELSE IF c = 64746 THEN <<1588,1607>> ELSE
            <<c>> ELSE IF c = 64747 THEN <<1603,1604>> ELSE IF c = 64748 THEN
            <<1603,1605>> ELSE IF c = 64749 THEN <<1604,1605>> ELSE <<c>> ELSE
            IF c < 64756 THEN IF c < 64753 THEN IF c = 64750 THEN
            <<1606,1605>> ELSE IF c = 64751 THEN <<1606,1607>> ELSE IF c =
            64752 THEN <<1610,1605>> ELSE <<c>> ELSE IF c = 64753 THEN
            <<1610,1607>> ELSE IF c = 64754 THEN <<1600,1614,1617>> ELSE IF c
            = 64755 THEN <<1600,1615,1617>> ELSE <<c>> ELSE IF c < 64759 THEN
            IF c = 64756 THEN <<1600,1616,1617>> ELSE IF c = 64757 THEN
            <<1591,1609>> ELSE IF c = 64758 THEN <<1591,1610>> ELSE <<c>> ELSE
            IF c = 64759 THEN <<1593,1609>> ELSE IF c = 64760 THEN
            <<1593,1610>> ELSE IF c = 64761 THEN <<1594,1609>> ELSE <<c>> ELSE
            IF c < 64963 THEN IF c < 64870 THEN IF c < 64807 THEN IF c < 64784
            THEN IF c < 64773 THEN IF c < 64767 THEN IF c < 64764 THEN IF c =
            64762 THEN <<1594,1610>> ELSE IF c = 64763 THEN <<1587,1609>> ELSE
            <<c>> ELSE IF c = 64764 THEN <<1587,1610>> ELSE IF c = 64765 THEN
            <<1588,1609>> ELSE IF c = 64766 THEN <<1588,1610>> ELSE <<c>> ELSE
            IF c < 64770 THEN IF c = 64767 THEN <<1581,1609>> ELSE IF c =
            64768 THEN <<1581,1610>> ELSE IF c = 64769 THEN <<1580,1609>> ELSE
            <<c>> ELSE IF c = 64770 THEN <<1580,1610>> ELSE IF c = 64771 THEN
            <<1582,1609>> ELSE IF c = 64772 THEN <<1582,1610>> ELSE <<c>> ELSE
            IF c < 64778 THEN IF c < 64775 THEN IF c = 64773 THEN
            <<1589,1609>> ELSE IF c = 64774 THEN <<1589,1610>> ELSE <<c>> ELSE
            IF c = 64775 THEN <<1590,1609>> ELSE IF c = 64776 THEN
            <<1590,1610>> ELSE IF c = 64777 THEN <<1588,1580>> ELSE <<c>> ELSE
            IF c < 64781 THEN IF c = 64778 THEN <<1588,1581>> ELSE IF c =
            64779 THEN <<1588,1582>> ELSE IF c = 64780 THEN <<1588,1605>> ELSE
            <<c>> ELSE IF c = 64781 THEN <<1588,1585>> ELSE IF c = 64782 THEN
            <<1587,1585>> ELSE IF c = 64783 THEN <<1589,1585>> ELSE <<c>> ELSE
            IF c < 64795 THEN IF c < 64789 THEN IF c < 64786 THEN IF c = 64784
            THEN <<1590,1585>> ELSE IF c = 64785 THEN <<1591,1609>> ELSE <<c>>
            ELSE IF c = 64786 THEN <<1591,1610>> ELSE IF c = 64787 THEN
            <<1593,1609>> ELSE IF c = 64788 THEN <<1593,1610>> ELSE <<c>> ELSE
            IF c < 64792 THEN IF c = 64789 THEN <<1594,1609>> ELSE IF c =
            64790 THEN <<1594,1610>> ELSE IF c = 64791 THEN <<1587,1609>> ELSE
            <<c>> ELSE IF c = 64792 THEN <<1587,1610>> ELSE IF c = 64793 THEN
            <<1588,1609>> ELSE IF c = 64794 THEN <<1588,1610>> ELSE <<c>> ELSE
            IF c < 64801 THEN IF c < 64798 THEN IF c = 64795 THEN
            <<1581,1609>> ELSE IF c = 64796 THEN <<1581,1610>> ELSE IF c =
            64797 THEN <<1580,1609>> ELSE <<c>> ELSE IF c = 64798 THEN
            <<1580,1610>> ELSE IF c = 64799 THEN <<1582,1609>> ELSE IF c =
            64800 THEN <<1582,1610>> ELSE <<c>> ELSE IF c < 64804 THEN IF c =
            64801 THEN <<1589,1609>> ELSE IF c = 64802 THEN <<1589,1610>> ELSE
            IF c = 64803 THEN <<1590,1609>> ELSE <<c>> ELSE IF c = 64804 THEN
            <<1590,1610>> ELSE IF c = 64805 THEN <<1588,1580>> ELSE IF c =
            64806 THEN <<1588,1581>> ELSE <<c>> ELSE IF c < 64829 THEN IF c <
            64818 THEN IF c < 64812 THEN IF c < 64809 THEN IF c = 64807 THEN
            <<1588,1582>> ELSE IF c = 64808 THEN <<1588,1605>> ELSE <<c>> ELSE
            IF c = 64809 THEN <<1588,1585>> ELSE IF c = 64810 THEN
            <<1587,1585>> ELSE IF c = 64811 THEN <<1589,1585>> ELSE <<c>> ELSE
            IF c < 64815 THEN IF c = 64812 THEN <<1590,1585>> ELSE IF c =
            64813 THEN <<1588,1580>> ELSE IF c = 64814 THEN <<1588,1581>> ELSE
            <<c>> ELSE IF c = 64815 THEN <<1588,1582>> ELSE IF c = 64816 THEN
            <<1588,1605>> ELSE IF c = 64817 THEN <<1587,1607>> ELSE <<c>> ELSE
            IF c < 64823 THEN IF c < 64820 THEN IF c = 64818 THEN
            <<1588,1607>> ELSE IF c = 64819 THEN <<1591,1605>> ELSE <<c>> ELSE
            IF c = 64820 THEN <<1587,1580>> ELSE IF c = 64821 THEN
            <<1587,1581>> ELSE IF c = 64822 THEN <<1587,1582>> ELSE <<c>> ELSE
            IF c < 64826 THEN IF c = 64823 THEN <<1588,1580>> ELSE IF c =
            64824 THEN <<1588,1581>> ELSE IF c = 64825 THEN <<1588,1582>> ELSE
            <<c>> ELSE IF c = 64826 THEN <<1591,1605>> ELSE IF c = 64827 THEN
            <<1592,1605>> ELSE IF c = 64828 THEN <<1575,1611>> ELSE <<c>> ELSE
            IF c < 64858 THEN IF c < 64852 THEN IF c < 64849 THEN IF c = 64829
            THEN <<1575,1611>> ELSE IF c = 64848 THEN <<1578,1580,1605>> ELSE
            <<c>> ELSE IF c = 64849 THEN <<1578,1581,1580>> ELSE IF c = 64850
            THEN <<1578,1581,1580>> ELSE IF c = 64851 THEN <<1578,1581,1605>>
            ELSE <<c>> ELSE IF c < 64855 THEN IF c = 64852 THEN
            <<1578,1582,1605>> ELSE IF c = 64853 THEN <<1578,1605,1580>> ELSE
            IF c = 64854 THEN <<1578,1605,1581>> ELSE <<c>> ELSE IF c = 64855
            THEN <<1578,1605,1582>> ELSE IF c = 64856 THEN <<1580,1605,1581>>
            ELSE IF c = 64857 THEN <<1580,1605,1581>> ELSE <<c>> ELSE IF c <
            64864 THEN IF c < 64861 THEN IF c = 64858 THEN <<1581,1605,1610>>
            ELSE IF c = 64859 THEN <<1581,1605,1609>> ELSE IF c = 64860 THEN
            <<1587,1581,1580>> ELSE <<c>> ELSE IF c = 64861 THEN
            <<1587,1580,1581>> ELSE IF c = 64862 THEN <<1587,1580,1609>> ELSE
            IF c = 64863 THEN <<1587,1605,1581>> ELSE <<c>> ELSE IF c < 64867
            THEN IF c = 64864 THEN <<1587,1605,1581>> ELSE IF c = 64865 THEN
            <<1587,1605,1580>> ELSE IF c = 64866 THEN <<1587,1605,1605>> ELSE
            <<c>> ELSE IF c = 64867 THEN <<1587,1605,1605>> ELSE IF c = 64868
            THEN <<1589,1581,1581>> ELSE IF c = 64869 THEN <<1589,1581,1581>>
            ELSE <<c>> ELSE IF c < 64917 THEN IF c < 64892 THEN IF c < 64881
            THEN IF c < 64875 THEN IF c < 64872 THEN IF c = 64870 THEN
            <<1589,1605,1605>> ELSE IF c = 64871 THEN <<1588,1581,1605>> ELSE
            <<c>> ELSE IF c = 64872 THEN <<1588,1581,1605>> ELSE IF c = 64873
            THEN <<1588,1580,1610>> ELSE IF c = 64874 THEN <<1588,1605,1582>>
            ELSE <<c>> ELSE IF c < 64878 THEN IF c = 64875 THEN
            <<1588,1605,1582>> ELSE IF c = 64876 THEN <<1588,1605,1605>> ELSE
            IF c = 64877 THEN <<1588,1605,1605>> ELSE <<c>> ELSE IF c = 64878
            THEN <<1590,1581,1609>> ELSE IF c = 64879 THEN <<1590,1582,1605>>
            ELSE IF c = 64880 THEN <<1590,1582,1605>> ELSE <<c>> ELSE IF c <
            64886 THEN IF c < 64883 THEN IF c = 64881 THEN <<1591,1605,1581>>
            ELSE IF c = 64882 THEN <<1591,1605,1581>> ELSE <<c>> ELSE IF c =
            64883 THEN <<1591,1605,1605>> ELSE IF c = 64884 THEN
            <<1591,1605,1610>> ELSE IF c = 64885 THEN <<1593,1580,1605>> ELSE
            <<c>> ELSE IF c < 64889 THEN IF c = 64886 THEN <<1593,1605,1605>>
            ELSE IF c = 64887 THEN <<1593,1605,1605>> ELSE IF c = 64888 THEN
            <<1593,1605,1609>> ELSE <<c>> ELSE IF c = 64889 THEN
            <<1594,1605,1605>> ELSE IF c = 64890 THEN <<1594,1605,1610>> ELSE
            IF c = 64891 THEN <<1594,1605,1609>> ELSE <<c>> ELSE IF c < 64903
            THEN IF c < 64897 THEN IF c < 64894 THEN IF c = 64892 THEN
            <<1601,1582,1605>> ELSE IF c = 64893 THEN <<1601,1582,1605>> ELSE
            <<c>> ELSE IF c = 64894 THEN <<1602,1605,1581>> ELSE IF c = 64895
            THEN <<1602,1605,1605>> ELSE IF c = 64896 THEN <<1604,1581,1605>>
            ELSE <<c>> ELSE IF c < 64900 THEN IF c = 64897 THEN
            <<1604,1581,1610>> ELSE IF c = 64898 THEN <<1604,1581,1609>> ELSE
            IF c = 64899 THEN <<1604,1580,1580>> ELSE <<c>> ELSE IF c = 64900
            THEN <<1604,1580,1580>> ELSE IF c = 64901 THEN <<1604,1582,1605>>
            ELSE IF c = 64902 THEN <<1604,1582,1605>> ELSE <<c>> ELSE IF c <
            64909 THEN IF c < 64906 THEN IF c = 64903 THEN <<1604,1605,1581>>
            ELSE IF c = 64904 THEN <<1604,1605,1581>> ELSE IF c = 64905 THEN
            <<1605,1581,1580>> ELSE <<c>> ELSE IF c = 64906 THEN
            <<1605,1581,1605>> ELSE IF c = 64907 THEN <<1605,1581,1610>> ELSE
            IF c = 64908 THEN <<1605,1580,1581>> ELSE <<c>> ELSE IF c < 64914
            THEN IF c = 64909 THEN <<1605,1580,1605>> ELSE IF c = 64910 THEN
            <<1605,1582,1580>> ELSE IF c = 64911 THEN <<1605,1582,1605>> ELSE
            <<c>> ELSE IF c = 64914 THEN <<1605,1580,1582>> ELSE IF c = 64915
            THEN <<1607,1605,1580>> ELSE IF c = 64916 THEN <<1607,1605,1605>>
            ELSE <<c>> ELSE IF c < 64940 THEN IF c < 64928 THEN IF c < 64922
            THEN IF c < 64919 THEN IF c = 64917 THEN <<1606,1581,1605>> ELSE
            IF c = 64918 THEN <<1606,1581,1609>> ELSE <<c>> ELSE IF c = 64919
            THEN <<1606,1580,1605>> ELSE IF c = 64920 THEN <<1606,1580,1605>>
            ELSE IF c = 64921 THEN <<1606,1580,1609>> ELSE <<c>> ELSE IF c <
            64925 THEN IF c = 64922 THEN <<1606,1605,1610>> ELSE IF c = 64923
            THEN <<1606,1605,1609>> ELSE IF c = 64924 THEN <<1610,1605,1605>>
            ELSE <<c>> ELSE IF c = 64925 THEN <<1610,1605,1605>> ELSE IF c =
            64926 THEN <<1576,1582,1610>> ELSE IF c = 64927 THEN
            <<1578,1580,1610>> ELSE <<c>> ELSE IF c < 64934 THEN IF c < 64931
            THEN IF c = 64928 THEN <<1578,1580,1609>> ELSE IF c = 64929 THEN
            <<1578,1582,1610>> ELSE IF c = 64930 THEN <<1578,1582,1609>> ELSE
            <<c>> ELSE IF c = 64931 THEN <<1578,1605,1610>> ELSE IF c = 64932
            THEN <<1578,1605,1609>> ELSE IF c = 64933 THEN <<1580,1605,1610>>
            ELSE <<c>> ELSE IF c < 64937 THEN IF c = 64934 THEN
            <<1580,1581,1609>> ELSE IF c = 64935 THEN <<1580,1605,1609>> ELSE
            IF c = 64936 THEN <<1587,1582,1609>> ELSE <<c>> ELSE IF c = 64937
            THEN <<1589,1581,1610>> ELSE IF c = 64938 THEN <<1588,1581,1610>>
            ELSE IF c = 64939 THEN <<1590,1581,1610>> ELSE <<c>> ELSE IF c <
            64951 THEN IF c < 64945 THEN IF c < 64942 THEN IF c = 64940 THEN
            <<1604,1580,1610>> ELSE IF c = 64941 THEN <<1604,1605,1610>> ELSE
            <<c>> ELSE IF c = 64942 THEN <<1610,1581,1610>> ELSE IF c = 64943
            THEN <<1610,1580,1610>> ELSE IF c = 64944 THEN <<1610,1605,1610>>
            ELSE <<c>> ELSE IF c < 64948 THEN IF c = 64945 THEN
            <<1605,1605,1610>> ELSE IF c = 64946 THEN <<1602,1605,1610>> ELSE
            IF c = 64947 THEN <<1606,1581,1610>> ELSE <<c>> ELSE IF c = 64948
            THEN <<1602,1605,1581>> ELSE IF c = 64949 THEN <<1604,1581,1605>>
            ELSE IF c = 64950 THEN <<1593,1605,1610>> ELSE <<c>> ELSE IF c <
            64957 THEN IF c < 64954 THEN IF c = 64951 THEN <<1603,1605,1610>>
            ELSE IF c = 64952 THEN <<1606,1580,1581>> ELSE IF c = 64953 THEN
            <<1605,1582,1610>> ELSE <<c>> ELSE IF c = 64954 THEN
            <<1604,1580,1605>> ELSE IF c = 64955 THEN <<1603,1605,1605>> ELSE
            IF c = 64956 THEN <<1604,1580,1605>> ELSE <<c>> ELSE IF c < 64960
            THEN IF c = 64957 THEN <<1606,1580,1581>> ELSE IF c = 64958 THEN
            <<1580,1581,1610>> ELSE IF c = 64959 THEN <<1581,1580,1610>> ELSE
            <<c>> ELSE IF c = 64960 THEN <<1605,1580,1610>> ELSE IF c = 64961
            THEN <<1601,1605,1610>> ELSE IF c = 64962 THEN <<1576,1581,1610>>
            ELSE <<c>> ELSE IF c < 65144 THEN IF c < 65089 THEN IF c < 65044
            THEN IF c < 65014 THEN IF c < 65008 THEN IF c < 64965 THEN IF c =
            64963 THEN <<1603,1605,1605>> ELSE IF c = 64964 THEN
            <<1593,1580,1605>> ELSE <<c>> ELSE IF c = 64965 THEN
            <<1589,1605,1605>> ELSE IF c = 64966 THEN <<1587,1582,1610>> ELSE
            IF c = 64967 THEN <<1606,1580,1610>> ELSE <<c>> ELSE IF c < 65011
            THEN IF c = 65008 THEN <<1589,1604,1746>> ELSE IF c = 65009 THEN
            <<1602,1604,1746>> ELSE IF c = 65010 THEN <<1575,1604,1604,1607>>
            ELSE <<c>> ELSE IF c = 65011 THEN <<1575,1603,1576,1585>> ELSE IF
            c = 65012 THEN <<1605,1581,1605,1583>> ELSE IF c = 65013 THEN
            <<1589,1604,1593,1605>> ELSE <<c>> ELSE IF c < 65019 THEN IF c <
            65016 THEN IF c = 65014 THEN <<1585,1587,1608,1604>> ELSE IF c =
            65015 THEN <<1593,1604,1610,1607>> ELSE <<c>> ELSE IF c = 65016
            THEN <<1608,1587,1604,1605>> ELSE IF c = 65017 THEN
            <<1589,1604,1609>> ELSE IF c = 65018 THEN
            <<1589,1604,1609,32,1575,1604,1604,1607,32,1593,1604,1610,1607,32,1608,1587,1604,1605>>
            ELSE <<c>> ELSE IF c < 65041 THEN IF c = 65019 THEN
            <<1580,1604,32,1580,1604,1575,1604,1607>> ELSE IF c = 65020 THEN
            <<1585,1740,1575,1604>> ELSE IF c = 65040 THEN <<44>> ELSE <<c>>
            ELSE IF c = 65041 THEN <<12289>> ELSE IF c = 65042 THEN <<12290>>
            ELSE IF c = 65043 THEN <<58>> ELSE <<c>> ELSE IF c < 65077 THEN IF
            c < 65049 THEN IF c < 65046 THEN IF c = 65044 THEN <<59>> ELSE IF
            c = 65045 THEN <<33>> ELSE <<c>> ELSE IF c = 65046 THEN <<63>>
            ELSE IF c = 65047 THEN <<12310>> ELSE IF c = 65048 THEN <<12311>>
            ELSE <<c>> ELSE IF c < 65074 THEN IF c = 65049 THEN <<46,46,46>>
            ELSE IF c = 65072 THEN <<46,46>> ELSE IF c = 65073 THEN <<8212>>
            ELSE <<c>> ELSE IF c = 65074 THEN <<8211>> ELSE IF c = 65075 THEN
            <<95>> ELSE IF c = 65076 THEN <<95>> ELSE <<c>> ELSE IF c < 65083
            THEN IF c < 65080 THEN IF c = 65077 THEN <<40>> ELSE IF c = 65078
            THEN <<41>> ELSE IF c = 65079 THEN <<123>> ELSE <<c>> ELSE IF c =
            65080 THEN <<125>> ELSE IF c = 65081 THEN <<12308>> ELSE IF c =
            65082 THEN <<12309>> ELSE <<c>> ELSE IF c < 65086 THEN IF c =
            65083 THEN <<12304>> ELSE IF c = 65084 THEN <<12305>> ELSE IF c =
            65085 THEN <<12298>> ELSE <<c>> ELSE IF c = 65086 THEN <<12299>>
            ELSE IF c = 65087 THEN <<12296>> ELSE IF c = 65088 THEN <<12297>>
            ELSE <<c>> ELSE IF c < 65114 THEN IF c < 65102 THEN IF c < 65096
            THEN IF c < 65091 THEN IF c = 65089 THEN <<12300>> ELSE IF c =
            65090 THEN <<12301>> ELSE <<c>> ELSE IF c = 65091 THEN <<12302>>
            ELSE IF c = 65092 THEN <<12303>> ELSE IF c = 65095 THEN <<91>>
            ELSE <<c>> ELSE IF c < 65099 THEN IF c = 65096 THEN <<93>> ELSE IF
            c = 65097 THEN <<32,773>> ELSE IF c = 65098 THEN <<32,773>> ELSE
            <<c>> ELSE IF c = 65099 THEN <<32,773>> ELSE IF c = 65100 THEN
            <<32,773>> ELSE IF c = 65101 THEN <<95>> ELSE <<c>> ELSE IF c <
            65108 THEN IF c < 65104 THEN IF c = 65102 THEN <<95>> ELSE IF c =
            65103 THEN <<95>> ELSE <<c>> ELSE IF c = 65104 THEN <<44>> ELSE IF
            c = 65105 THEN <<12289>> ELSE IF c = 65106 THEN <<46>> ELSE <<c>>
            ELSE IF c < 65111 THEN IF c = 65108 THEN <<59>> ELSE IF c = 65109
            THEN <<58>> ELSE IF c = 65110 THEN <<63>> ELSE <<c>> ELSE IF c =
            65111 THEN <<33>> ELSE IF c = 65112 THEN <<8212>> ELSE IF c =
            65113 THEN <<40>> ELSE <<c>> ELSE IF c < 65125 THEN IF c < 65119
            THEN IF c < 65116 THEN IF c = 65114 THEN <<41>> ELSE IF c = 65115
            THEN <<123>> ELSE <<c>> ELSE IF c = 65116 THEN <<125>> ELSE IF c =
            65117 THEN <<12308>> ELSE IF c = 65118 THEN <<12309>> ELSE <<c>>
            ELSE IF c < 65122 THEN IF c = 65119 THEN <<35>> ELSE IF c = 65120
            THEN <<38>> ELSE IF c = 65121 THEN <<42>> ELSE <<c>> ELSE IF c =
            65122 THEN <<43>> ELSE IF c = 65123 THEN <<45>> ELSE IF c = 65124
            THEN <<60>> ELSE <<c>> ELSE IF c < 65136 THEN IF c < 65129 THEN IF
            c = 65125 THEN <<62>> ELSE IF c = 65126 THEN <<61>> ELSE IF c =
            65128 THEN <<92>> ELSE <<c>> ELSE IF c = 65129 THEN <<36>> ELSE IF
            c = 65130 THEN <<37>> ELSE IF c = 65131 THEN <<64>> ELSE <<c>>
            ELSE IF c < 65140 THEN IF c = 65136 THEN <<32,1611>> ELSE IF c =
            65137 THEN <<1600,1611>> ELSE IF c = 65138 THEN <<32,1612>> ELSE
            <<c>> ELSE IF c = 65140 THEN <<32,1613>> ELSE IF c = 65142 THEN
            <<32,1614>> ELSE IF c = 65143 THEN <<1600,1614>> ELSE <<c>> ELSE
            IF c < 65189 THEN IF c < 65166 THEN IF c < 65155 THEN IF c < 65149
            THEN IF c < 65146 THEN IF c = 65144 THEN <<32,1615>> ELSE IF c =
            65145 THEN <<1600,1615>> ELSE <<c>> ELSE IF c = 65146 THEN
            <<32,1616>> ELSE IF c = 65147 THEN <<1600,1616>> ELSE IF c = 65148
            THEN <<32,1617>> ELSE <<c>> ELSE IF c < 65152 THEN IF c = 65149
            THEN <<1600,1617>> ELSE IF c = 65150 THEN <<32,1618>> ELSE IF c =
            65151 THEN <<1600,1618>> ELSE <<c>> ELSE IF c = 65152 THEN
            <<1569>> ELSE IF c = 65153 THEN <<1575,1619>> ELSE IF c = 65154
            THEN <<1575,1619>> ELSE <<c>> ELSE IF c < 65160 THEN IF c < 65157
            THEN IF c = 65155 THEN <<1575,1620>> ELSE IF c = 65156 THEN
            <<1575,1620>> ELSE <<c>> ELSE IF c = 65157 THEN <<1608,1620>> ELSE
            IF c = 65158 THEN <<1608,1620>> ELSE IF c = 65159 THEN
            <<1575,1621>> ELSE <<c>> ELSE IF c < 65163 THEN IF c = 65160 THEN
            <<1575,1621>> ELSE IF c = 65161 THEN <<1610,1620>> ELSE IF c =
            65162 THEN <<1610,1620>> ELSE <<c>> ELSE IF c = 65163 THEN
            <<1610,1620>> ELSE IF c = 65164 THEN <<1610,1620>> ELSE IF c =
            65165 THEN <<1575>> ELSE <<c>> ELSE IF c < 65177 THEN IF c < 65171
            THEN IF c < 65168 THEN IF c = 65166 THEN <<1575>> ELSE IF c =
            65167 THEN <<1576>> ELSE <<c>> ELSE IF c = 65168 THEN <<1576>>
            ELSE IF c = 65169 THEN <<1576>> ELSE IF c = 65170 THEN <<1576>>
            ELSE <<c>> ELSE IF c < 65174 THEN IF c = 65171 THEN <<1577>> ELSE
            IF c = 65172 THEN <<1577>> ELSE IF c = 65173 THEN <<1578>> ELSE
            <<c>> ELSE IF c = 65174 THEN <<1578>> ELSE IF c = 65175 THEN
            <<1578>> ELSE IF c = 65176 THEN <<1578>> ELSE <<c>> ELSE IF c <
            65183 THEN IF c < 65180 THEN IF c = 65177 THEN <<1579>> ELSE IF c
            = 65178 THEN <<1579>> ELSE IF c = 65179 THEN <<1579>> ELSE <<c>>
            ELSE IF c = 65180 THEN <<1579>> ELSE IF c = 65181 THEN <<1580>>
            ELSE IF c = 65182 THEN <<1580>> ELSE <<c>> ELSE IF c < 65186 THEN
            IF c = 65183 THEN <<1580>> ELSE IF c = 65184 THEN <<1580>> ELSE IF
            c = 65185 THEN <<1581>> ELSE <<c>> ELSE IF c = 65186 THEN <<1581>>
            ELSE IF c = 65187 THEN <<1581>> ELSE IF c = 65188 THEN <<1581>>
            ELSE <<c>> ELSE IF c < 65212 THEN IF c < 65200 THEN IF c < 65194
            THEN IF c < 65191 THEN IF c = 65189 THEN <<1582>> ELSE IF c =
            65190 THEN <<1582>> ELSE <<c>> ELSE IF c = 65191 THEN <<1582>>
            ELSE IF c = 65192 THEN <<1582>> ELSE IF c = 65193 THEN <<1583>>
            ELSE <<c>> ELSE IF c < 65197 THEN IF c = 65194 THEN <<1583>> ELSE
            IF c = 65195 THEN <<1584>> ELSE IF c = 65196 THEN <<1584>> ELSE
            <<c>> ELSE IF c = 65197 THEN <<1585>> ELSE IF c = 65198 THEN
            <<1585>> ELSE IF c = 65199 THEN <<1586>> ELSE <<c>> ELSE IF c <
            65206 THEN IF c < 65203 THEN IF c = 65200 THEN <<1586>> ELSE IF c
            = 65201 THEN <<1587>> ELSE IF c = 65202 THEN <<1587>> ELSE <<c>>
            ELSE IF c = 65203 THEN <<1587>> ELSE IF c = 65204 THEN <<1587>>
            ELSE IF c = 65205 THEN <<1588>> ELSE <<c>> ELSE IF c < 65209 THEN
            IF c = 65206 THEN <<1588>> ELSE IF c = 65207 THEN <<1588>> ELSE IF
            c = 65208 THEN <<1588>> ELSE <<c>> ELSE IF c = 65209 THEN <<1589>>
            ELSE IF c = 65210 THEN <<1589>> ELSE IF c = 65211 THEN <<1589>>
            ELSE <<c>> ELSE IF c < 65223 THEN IF c < 65217 THEN IF c < 65214
            THEN IF c = 65212 THEN <<1589>> ELSE IF c = 65213 THEN <<1590>>
            ELSE <<c>> ELSE IF c = 65214 THEN <<1590>> ELSE IF c = 65215 THEN
            <<1590>> ELSE IF c = 65216 THEN <<1590>> ELSE <<c>> ELSE IF c <
            65220 THEN IF c = 65217 THEN <<1591>> ELSE IF c = 65218 THEN
            <<1591>> ELSE IF c = 65219 THEN <<1591>> ELSE <<c>> ELSE IF c =
            65220 THEN <<1591>> ELSE IF c = 65221 THEN <<1592>> ELSE IF c =
            65222 THEN <<1592>> ELSE <<c>> ELSE IF c < 65229 THEN IF c < 65226
            THEN IF c = 65223 THEN <<1592>> ELSE IF c = 65224 THEN <<1592>>
            ELSE IF c = 65225 THEN <<1593>> ELSE <<c>> ELSE IF c = 65226 THEN
            <<1593>> ELSE IF c = 65227 THEN <<1593>> ELSE IF c = 65228 THEN
            <<1593>> ELSE <<c>> ELSE IF c < 65232 THEN IF c = 65229 THEN
            <<1594>> ELSE IF c = 65230 THEN <<1594>> ELSE IF c = 65231 THEN
            <<1594>> ELSE <<c>> ELSE IF c = 65232 THEN <<1594>> ELSE IF c =
            65233 THEN <<1601>> ELSE IF c = 65234 THEN <<1601>> ELSE <<c>>
            ELSE IF c < 119821 THEN IF c < 65420 THEN IF c < 65329 THEN IF c <
            65284 THEN IF c < 65257 THEN IF c < 65246 THEN IF c < 65240 THEN
            IF c < 65237 THEN IF c = 65235 THEN <<1601>> ELSE IF c = 65236
            THEN <<1601>> ELSE <<c>> ELSE IF c = 65237 THEN <<1602>> ELSE IF c
            = 65238 THEN <<1602>> ELSE IF c = 65239 THEN <<1602>> ELSE <<c>>
            ELSE IF c < 65243 THEN IF c = 65240 THEN <<1602>> ELSE IF c =
            65241 THEN <<1603>> ELSE IF c = 65242 THEN <<1603>> ELSE <<c>>
            ELSE IF c = 65243 THEN <<1603>> ELSE IF c = 65244 THEN <<1603>>
            ELSE IF c = 65245 THEN <<1604>> ELSE <<c>> ELSE IF c < 65251 THEN
            IF c < 65248 THEN IF c = 65246 THEN <<1604>> ELSE IF c = 65247
            THEN <<1604>> ELSE <<c>> ELSE IF c = 65248 THEN <<1604>> ELSE IF c
            = 65249 THEN <<1605>> ELSE IF c = 65250 THEN <<1605>> ELSE <<c>>
            ELSE IF c < 65254 THEN IF c = 65251 THEN <<1605>> ELSE IF c =
            65252 THEN <<1605>> ELSE IF c = 65253 THEN <<1606>> ELSE <<c>>
            ELSE IF c = 65254 THEN <<1606>> ELSE IF c = 65255 THEN <<1606>>
            ELSE IF c = 65256 THEN <<1606>> ELSE <<c>> ELSE IF c < 65268 THEN
            IF c < 65262 THEN IF c < 65259 THEN IF c = 65257 THEN <<1607>>
            ELSE IF c = 65258 THEN <<1607>> ELSE <<c>> ELSE IF c = 65259 THEN
            <<1607>> ELSE IF c = 65260 THEN <<1607>> ELSE IF c = 65261 THEN
            <<1608>> ELSE <<c>> ELSE IF c < 65265 THEN IF c = 65262 THEN
            <<1608>> ELSE IF c = 65263 THEN <<1609>> ELSE IF c = 65264 THEN
            <<1609>> ELSE <<c>> ELSE IF c = 65265 THEN <<1610>> ELSE IF c =
            65266 THEN <<1610>> ELSE IF c = 65267 THEN <<1610>> ELSE <<c>>
            ELSE IF c < 65274 THEN IF c < 65271 THEN IF c = 65268 THEN
            <<1610>> ELSE IF c = 65269 THEN <<1604,1575,1619>> ELSE IF c =
            65270 THEN <<1604,1575,1619>> ELSE <<c>> ELSE IF c = 65271 THEN
            <<1604,1575,1620>> ELSE IF c = 65272 THEN <<1604,1575,1620>> ELSE
            IF c = 65273 THEN <<1604,1575,1621>> ELSE <<c>> ELSE IF c < 65281
            THEN IF c = 65274 THEN <<1604,1575,1621>> ELSE IF c = 65275 THEN
            <<1604,1575>> ELSE IF c = 65276 THEN <<1604,1575>> ELSE <<c>> ELSE
            IF c = 65281 THEN <<33>> ELSE IF c = 65282 THEN <<34>> ELSE IF c =
            65283 THEN <<35>> ELSE <<c>> ELSE IF c < 65306 THEN IF c < 65295
            THEN IF c < 65289 THEN IF c < 65286 THEN IF c = 65284 THEN <<36>>
            ELSE IF c = 65285 THEN <<37>> ELSE <<c>> ELSE IF c = 65286 THEN
            <<38>> ELSE IF c = 65287 THEN <<39>> ELSE IF c = 65288 THEN <<40>>
            ELSE <<c>> ELSE IF c < 65292 THEN IF c = 65289 THEN <<41>> ELSE IF
            c = 65290 THEN <<42>> ELSE IF c = 65291 THEN <<43>> ELSE <<c>>
            ELSE IF c = 65292 THEN <<44>> ELSE IF c = 65293 THEN <<45>> ELSE
            IF c = 65294 THEN <<46>> ELSE <<c>> ELSE IF c < 65300 THEN IF c <
            65297 THEN IF c = 65295 THEN <<47>> ELSE IF c = 65296 THEN <<48>>
            ELSE <<c>> ELSE IF c = 65297 THEN <<49>> ELSE IF c = 65298 THEN
            <<50>> ELSE IF c = 65299 THEN <<51>> ELSE <<c>> ELSE IF c < 65303
            THEN IF c = 65300 THEN <<52>> ELSE IF c = 65301 THEN <<53>> ELSE
            IF c = 65302 THEN <<54>> ELSE <<c>> ELSE IF c = 65303 THEN <<55>>
            ELSE IF c = 65304 THEN <<56>> ELSE IF c = 65305 THEN <<57>> ELSE
            <<c>> ELSE IF c < 65317 THEN IF c < 65311 THEN IF c < 65308 THEN
            IF c = 65306 THEN <<58>> ELSE IF c = 65307 THEN <<59>> ELSE <<c>>
            ELSE IF c = 65308 THEN <<60>> ELSE IF c = 65309 THEN <<61>> ELSE
            IF c = 65310 THEN <<62>> ELSE <<c>> ELSE IF c < 65314 THEN IF c =
            65311 THEN <<63>> ELSE IF c = 65312 THEN <<64>> ELSE IF c = 65313
            THEN <<65>> ELSE <<c>> ELSE IF c = 65314 THEN <<66>> ELSE IF c =
            65315 THEN <<67>> ELSE IF c = 65316 THEN <<68>> ELSE <<c>> ELSE IF
            c < 65323 THEN IF c < 65320 THEN IF c = 65317 THEN <<69>> ELSE IF
            c = 65318 THEN <<70>> ELSE IF c = 65319 THEN <<71>> ELSE <<c>>
            ELSE IF c = 65320 THEN <<72>> ELSE IF c = 65321 THEN <<73>> ELSE
            IF c = 65322 THEN <<74>> ELSE <<c>> ELSE IF c < 65326 THEN IF c =
            65323 THEN <<75>> ELSE IF c = 65324 THEN <<76>> ELSE IF c = 65325
            THEN <<77>> ELSE <<c>> ELSE IF c = 65326 THEN <<78>> ELSE IF c =
            65327 THEN <<79>> ELSE IF c = 65328 THEN <<80>> ELSE <<c>> ELSE IF
            c < 65374 THEN IF c < 65351 THEN IF c < 65340 THEN IF c < 65334
            THEN IF c < 65331 THEN IF c = 65329 THEN <<81>> ELSE IF c = 65330
            THEN <<82>> ELSE <<c>> ELSE IF c = 65331 THEN <<83>> ELSE IF c =
            65332 THEN <<84>> ELSE IF c = 65333 THEN <<85>> ELSE <<c>> ELSE IF
            c < 65337 THEN IF c = 65334 THEN <<86>> ELSE IF c = 65335 THEN
            <<87>> ELSE IF c = 65336 THEN <<88>> ELSE <<c>> ELSE IF c = 65337
            THEN <<89>> ELSE IF c = 65338 THEN <<90>> ELSE IF c = 65339 THEN
            <<91>> ELSE <<c>> ELSE IF c < 65345 THEN IF c < 65342 THEN IF c =
            65340 THEN <<92>> ELSE IF c = 65341 THEN <<93>> ELSE <<c>> ELSE IF
            c = 65342 THEN <<94>> ELSE IF c = 65343 THEN <<95>> ELSE IF c =
            65344 THEN <<96>> ELSE <<c>> ELSE IF c < 65348 THEN IF c = 65345
            THEN <<97>> ELSE IF c = 65346 THEN <<98>> ELSE IF c = 65347 THEN
            <<99>> ELSE <<c>> ELSE IF c = 65348 THEN <<100>> ELSE IF c = 65349
            THEN <<101>> ELSE IF c = 65350 THEN <<102>> ELSE <<c>> ELSE IF c <
            65362 THEN IF c < 65356 THEN IF c < 65353 THEN IF c = 65351 THEN
            <<103>> ELSE IF c = 65352 THEN <<104>> ELSE <<c>> ELSE IF c =
            65353 THEN <<105>> ELSE IF c = 65354 THEN <<106>> ELSE IF c =
            65355 THEN <<107>> ELSE <<c>> ELSE IF c < 65359 THEN IF c = 65356
            THEN <<108>> ELSE IF c = 65357 THEN <<109>> ELSE IF c = 65358 THEN
            <<110>> ELSE <<c>> ELSE IF c = 65359 THEN <<111>> ELSE IF c =
            65360 THEN <<112>> ELSE IF c = 65361 THEN <<113>> ELSE <<c>> ELSE
            IF c < 65368 THEN IF c < 65365 THEN IF c = 65362 THEN <<114>> ELSE
            IF c = 65363 THEN <<115>> ELSE IF c = 65364 THEN <<116>> ELSE
            <<c>> ELSE IF c = 65365 THEN <<117>> ELSE IF c = 65366 THEN
            <<118>> ELSE IF c = 65367 THEN <<119>> ELSE <<c>> ELSE IF c <
            65371 THEN IF c = 65368 THEN <<120>> ELSE IF c = 65369 THEN
            <<121>> ELSE IF c = 65370 THEN <<122>> ELSE <<c>> ELSE IF c =
            65371 THEN <<123>> ELSE IF c = 65372 THEN <<124>> ELSE IF c =
            65373 THEN <<125>> ELSE <<c>> ELSE IF c < 65397 THEN IF c < 65385
            THEN IF c < 65379 THEN IF c < 65376 THEN IF c = 65374 THEN <<126>>
            ELSE IF c = 65375 THEN <<10629>> ELSE <<c>> ELSE IF c = 65376 THEN
            <<10630>> ELSE IF c = 65377 THEN <<12290>> ELSE IF c = 65378 THEN
            <<12300>> ELSE <<c>> ELSE IF c < 65382 THEN IF c = 65379 THEN
            <<12301>> ELSE IF c = 65380 THEN <<12289>> ELSE IF c = 65381 THEN
            <<12539>> ELSE <<c>> ELSE IF c = 65382 THEN <<12530>> ELSE IF c =
            65383 THEN <<12449>> ELSE IF c = 65384 THEN <<12451>> ELSE <<c>>
            ELSE IF c < 65391 THEN IF c < 65388 THEN IF c = 65385 THEN
            <<12453>> ELSE IF c = 65386 THEN <<12455>> ELSE IF c = 65387 THEN
            <<12457>> ELSE <<c>> ELSE IF c = 65388 THEN <<12515>> ELSE IF c =
            65389 THEN <<12517>> ELSE IF c = 65390 THEN <<12519>> ELSE <<c>>
            ELSE IF c < 65394 THEN IF c = 65391 THEN <<12483>> ELSE IF c =
            65392 THEN <<12540>> ELSE IF c = 65393 THEN <<12450>> ELSE <<c>>
            ELSE IF c = 65394 THEN <<12452>> ELSE IF c = 65395 THEN <<12454>>
            ELSE IF c = 65396 THEN <<12456>> ELSE <<c>> ELSE IF c < 65408 THEN
            IF c < 65402 THEN IF c < 65399 THEN IF c = 65397 THEN <<12458>>
            ELSE IF c = 65398 THEN <<12459>> ELSE <<c>> ELSE IF c = 65399 THEN
            <<12461>> ELSE IF c = 65400 THEN <<12463>> ELSE IF c = 65401 THEN
            <<12465>> ELSE <<c>> ELSE IF c < 65405 THEN IF c = 65402 THEN
            <<12467>> ELSE IF c = 65403 THEN <<12469>> ELSE IF c = 65404 THEN
            <<12471>> ELSE <<c>> ELSE IF c = 65405 THEN <<12473>> ELSE IF c =
            65406 THEN <<12475>> ELSE IF c = 65407 THEN <<12477>> ELSE <<c>>
            ELSE IF c < 65414 THEN IF c < 65411 THEN IF c = 65408 THEN
            <<12479>> ELSE IF c = 65409 THEN <<12481>> ELSE IF c = 65410 THEN
            <<12484>> ELSE <<c>> ELSE IF c = 65411 THEN <<12486>> ELSE IF c =
            65412 THEN <<12488>> ELSE IF c = 65413 THEN <<12490>> ELSE <<c>>
            ELSE IF c < 65417 THEN IF c = 65414 THEN <<12491>> ELSE IF c =
            65415 THEN <<12492>> ELSE IF c = 65416 THEN <<12493>> ELSE <<c>>
            ELSE IF c = 65417 THEN <<12494>> ELSE IF c = 65418 THEN <<12495>>
            ELSE IF c = 65419 THEN <<12498>> ELSE <<c>> ELSE IF c < 67461 THEN
            IF c < 65465 THEN IF c < 65442 THEN IF c < 65431 THEN IF c < 65425
            THEN IF c < 65422 THEN IF c = 65420 THEN <<12501>> ELSE IF c =
            65421 THEN <<12504>> ELSE <<c>> ELSE IF c = 65422 THEN <<12507>>
            ELSE IF c = 65423 THEN <<12510>> ELSE IF c = 65424 THEN <<12511>>
            ELSE <<c>> ELSE IF c < 65428 THEN IF c = 65425 THEN <<12512>> ELSE
            IF c = 65426 THEN <<12513>> ELSE IF c = 65427 THEN <<12514>> ELSE
            <<c>> ELSE IF c = 65428 THEN <<12516>> ELSE IF c = 65429 THEN
            <<12518>> ELSE IF c = 65430 THEN <<12520>> ELSE <<c>> ELSE IF c <
            65436 THEN IF c < 65433 THEN IF c = 65431 THEN <<12521>> ELSE IF c
            = 65432 THEN <<12522>> ELSE <<c>> ELSE IF c = 65433 THEN <<12523>>
            ELSE IF c = 65434 THEN <<12524>> ELSE IF c = 65435 THEN <<12525>>
            ELSE <<c>> ELSE IF c < 65439 THEN IF c = 65436 THEN <<12527>> ELSE
            IF c = 65437 THEN <<12531>> ELSE IF c = 65438 THEN <<12441>> ELSE
            <<c>> ELSE IF c = 65439 THEN <<12442>> ELSE IF c = 65440 THEN
            <<4448>> ELSE IF c = 65441 THEN <<4352>> ELSE <<c>> ELSE IF c <
            65453 THEN IF c < 65447 THEN IF c < 65444 THEN IF c = 65442 THEN
            <<4353>> ELSE IF c = 65443 THEN <<4522>> ELSE <<c>> ELSE IF c =
            65444 THEN <<4354>> ELSE IF c = 65445 THEN <<4524>> ELSE IF c =
            65446 THEN <<4525>> ELSE <<c>> ELSE IF c < 65450 THEN IF c = 65447
            THEN <<4355>> ELSE IF c = 65448 THEN <<4356>> ELSE IF c = 65449
            THEN <<4357>> ELSE <<c>> ELSE IF c = 65450 THEN <<4528>> ELSE IF c
            = 65451 THEN <<4529>> ELSE IF c = 65452 THEN <<4530>> ELSE <<c>>
            ELSE IF c < 65459 THEN IF c < 65456 THEN IF c = 65453 THEN
            <<4531>> ELSE IF c = 65454 THEN <<4532>> ELSE IF c = 65455 THEN
            <<4533>> ELSE <<c>> ELSE IF c = 65456 THEN <<4378>> ELSE IF c =
            65457 THEN <<4358>> ELSE IF c = 65458 THEN <<4359>> ELSE <<c>>
            ELSE IF c < 65462 THEN IF c = 65459 THEN <<4360>> ELSE IF c =
            65460 THEN <<4385>> ELSE IF c = 65461 THEN <<4361>> ELSE <<c>>
            ELSE IF c = 65462 THEN <<4362>> ELSE IF c = 65463 THEN <<4363>>
            ELSE IF c = 65464 THEN <<4364>> ELSE <<c>> ELSE IF c < 65494 THEN
            IF c < 65479 THEN IF c < 65470 THEN IF c < 65467 THEN IF c = 65465
            THEN <<4365>> ELSE IF c = 65466 THEN <<4366>> ELSE <<c>> ELSE IF c
            = 65467 THEN <<4367>> ELSE IF c = 65468 THEN <<4368>> ELSE IF c =
            65469 THEN <<4369>> ELSE <<c>> ELSE IF c < 65476 THEN IF c = 65470
            THEN <<4370>> ELSE IF c = 65474 THEN <<4449>> ELSE IF c = 65475
            THEN <<4450>> ELSE <<c>> ELSE IF c = 65476 THEN <<4451>> ELSE IF c
            = 65477 THEN <<4452>> ELSE IF c = 65478 THEN <<4453>> ELSE <<c>>
            ELSE IF c < 65486 THEN IF c < 65483 THEN IF c = 65479 THEN
            <<4454>> ELSE IF c = 65482 THEN <<4455>> ELSE <<c>> ELSE IF c =
            65483 THEN <<4456>> ELSE IF c = 65484 THEN <<4457>> ELSE IF c =
            65485 THEN <<4458>> ELSE <<c>> ELSE IF c < 65491 THEN IF c = 65486
            THEN <<4459>> ELSE IF c = 65487 THEN <<4460>> ELSE IF c = 65490
            THEN <<4461>> ELSE <<c>> ELSE IF c = 65491 THEN <<4462>> ELSE IF c
            = 65492 THEN <<4463>> ELSE IF c = 65493 THEN <<4464>> ELSE <<c>>
            ELSE IF c < 65510 THEN IF c < 65504 THEN IF c < 65498 THEN IF c =
            65494 THEN <<4465>> ELSE IF c = 65495 THEN <<4466>> ELSE <<c>>
            ELSE IF c = 65498 THEN <<4467>> ELSE IF c = 65499 THEN <<4468>>
            ELSE IF c = 65500 THEN <<4469>> ELSE <<c>> ELSE IF c < 65507 THEN
            IF c = 65504 THEN <<162>> ELSE IF c = 65505 THEN <<163>> ELSE IF c
            = 65506 THEN <<172>> ELSE <<c>> ELSE IF c = 65507 THEN <<32,772>>
            ELSE IF c = 65508 THEN <<166>> ELSE IF c = 65509 THEN <<165>> ELSE
            <<c>> ELSE IF c < 65517 THEN IF c < 65514 THEN IF c = 65510 THEN
            <<8361>> ELSE IF c = 65512 THEN <<9474>> ELSE IF c = 65513 THEN
            <<8592>> ELSE <<c>> ELSE IF c = 65514 THEN <<8593>> ELSE IF c =
            65515 THEN <<8594>> ELSE IF c = 65516 THEN <<8595>> ELSE <<c>>
            ELSE IF c < 67458 THEN IF c = 65517 THEN <<9632>> ELSE IF c =
            65518 THEN <<9675>> ELSE IF c = 67457 THEN <<720>> ELSE <<c>> ELSE
            IF c = 67458 THEN <<721>> ELSE IF c = 67459 THEN <<230>> ELSE IF c
            = 67460 THEN <<665>> ELSE <<c>> ELSE IF c < 67508 THEN IF c <
            67484 THEN IF c < 67473 THEN IF c < 67467 THEN IF c < 67464 THEN
            IF c = 67461 THEN <<595>> ELSE IF c = 67463 THEN <<675>> ELSE
            <<c>> ELSE IF c = 67464 THEN <<43878>> ELSE IF c = 67465 THEN
            <<677>> ELSE IF c = 67466 THEN <<676>> ELSE <<c>> ELSE IF c <
            67470 THEN IF c = 67467 THEN <<598>> ELSE IF c = 67468 THEN
            <<599>> ELSE IF c = 67469 THEN <<7569>> ELSE <<c>> ELSE IF c =
            67470 THEN <<600>> ELSE IF c = 67471 THEN <<606>> ELSE IF c =
            67472 THEN <<681>> ELSE <<c>> ELSE IF c < 67478 THEN IF c < 67475
            THEN IF c = 67473 THEN <<612>> ELSE IF c = 67474 THEN <<610>> ELSE
            <<c>> ELSE IF c = 67475 THEN <<608>> ELSE IF c = 67476 THEN
            <<667>> ELSE IF c = 67477 THEN <<295>> ELSE <<c>> ELSE IF c <
            67481 THEN IF c = 67478 THEN <<668>> ELSE IF c = 67479 THEN
            <<615>> ELSE IF c = 67480 THEN <<644>> ELSE <<c>> ELSE IF c =
            67481 THEN <<682>> ELSE IF c = 67482 THEN <<683>> ELSE IF c =
            67483 THEN <<620>> ELSE <<c>> ELSE IF c < 67495 THEN IF c < 67489
            THEN IF c < 67486 THEN IF c = 67484 THEN <<122628>> ELSE IF c =
            67485 THEN <<42894>> ELSE <<c>> ELSE IF c = 67486 THEN <<622>>
            ELSE IF c = 67487 THEN <<122629>> ELSE IF c = 67488 THEN <<654>>
            ELSE <<c>> ELSE IF c < 67492 THEN IF c = 67489 THEN <<122630>>
            ELSE IF c = 67490 THEN <<248>> ELSE IF c = 67491 THEN <<630>> ELSE
            <<c>> ELSE IF c = 67492 THEN <<631>> ELSE IF c = 67493 THEN
            <<113>> ELSE IF c = 67494 THEN <<634>> ELSE <<c>> ELSE IF c <
            67501 THEN IF c < 67498 THEN IF c = 67495 THEN <<122632>> ELSE IF
            c = 67496 THEN <<637>> ELSE IF c = 67497 THEN <<638>> ELSE <<c>>
            ELSE IF c = 67498 THEN <<640>> ELSE IF c = 67499 THEN <<680>> ELSE
            IF c = 67500 THEN <<678>> ELSE <<c>> ELSE IF c < 67504 THEN IF c =
            67501 THEN <<43879>> ELSE IF c = 67502 THEN <<679>> ELSE IF c =
            67503 THEN <<648>> ELSE <<c>> ELSE IF c = 67504 THEN <<11377>>
            ELSE IF c = 67506 THEN <<655>> ELSE IF c = 67507 THEN <<673>> ELSE
            <<c>> ELSE IF c < 119137 THEN IF c < 69935 THEN IF c < 67513 THEN
            IF c < 67510 THEN IF c = 67508 THEN <<674>> ELSE IF c = 67509 THEN
            <<664>> ELSE <<c>> ELSE IF c = 67510 THEN <<448>> ELSE IF c =
            67511 THEN <<449>> ELSE IF c = 67512 THEN <<450>> ELSE <<c>> ELSE
            IF c < 69788 THEN IF c = 67513 THEN <<122634>> ELSE IF c = 67514
            THEN <<122654>> ELSE IF c = 69786 THEN <<69785,69818>> ELSE <<c>>
            ELSE IF c = 69788 THEN <<69787,69818>> ELSE IF c = 69803 THEN
            <<69797,69818>> ELSE IF c = 69934 THEN <<69937,69927>> ELSE <<c>>
            ELSE IF c < 71098 THEN IF c < 70843 THEN IF c = 69935 THEN
            <<69938,69927>> ELSE IF c = 70475 THEN <<70471,70462>> ELSE IF c =
            70476 THEN <<70471,70487>> ELSE <<c>> ELSE IF c = 70843 THEN
            <<70841,70842>> ELSE IF c = 70844 THEN <<70841,70832>> ELSE IF c =
            70846 THEN <<70841,70845>> ELSE <<c>> ELSE IF c < 119134 THEN IF c
            = 71098 THEN <<71096,71087>> ELSE IF c = 71099 THEN
            <<71097,71087>> ELSE IF c = 71992 THEN <<71989,71984>> ELSE <<c>>
            ELSE IF c = 119134 THEN <<119127,119141>> ELSE IF c = 119135 THEN
            <<119128,119141>> ELSE IF c = 119136 THEN <<119128,119141,119150>>
            ELSE <<c>> ELSE IF c < 119809 THEN IF c < 119228 THEN IF c <
            119139 THEN IF c = 119137 THEN <<119128,119141,119151>> ELSE IF c
            = 119138 THEN <<119128,119141,119152>> ELSE <<c>> ELSE IF c =
            119139 THEN <<119128,119141,119153>> ELSE IF c = 119140 THEN
            <<119128,119141,119154>> ELSE IF c = 119227 THEN <<119225,119141>>
            ELSE <<c>> ELSE IF c < 119231 THEN IF c = 119228 THEN
            <<119226,119141>> ELSE IF c = 119229 THEN <<119225,119141,119150>>
            ELSE IF c = 119230 THEN <<119226,119141,119150>> ELSE <<c>> ELSE
            IF c = 119231 THEN <<119225,119141,119151>> ELSE IF c = 119232
            THEN <<119226,119141,119151>> ELSE IF c = 119808 THEN <<65>> ELSE
            <<c>> ELSE IF c < 119815 THEN IF c < 119812 THEN IF c = 119809
            THEN <<66>> ELSE IF c = 119810 THEN <<67>> ELSE IF c = 119811 THEN
            <<68>> ELSE <<c>> ELSE IF c = 119812 THEN <<69>> ELSE IF c =
            119813 THEN <<70>> ELSE IF c = 119814 THEN <<71>> ELSE <<c>> ELSE
            IF c < 119818 THEN IF c = 119815 THEN <<72>> ELSE IF c = 119816
            THEN <<73>> ELSE IF c = 119817 THEN <<74>> ELSE <<c>> ELSE IF c =
            119818 THEN <<75>> ELSE IF c = 119819 THEN <<76>> ELSE IF c =
            119820 THEN <<77>> ELSE <<c>> ELSE IF c < 120014 THEN IF c <
            119912 THEN IF c < 119866 THEN IF c < 119843 THEN IF c < 119832
            THEN IF c < 119826 THEN IF c < 119823 THEN IF c = 119821 THEN
            <<78>> ELSE IF c = 119822 THEN <<79>> ELSE <<c>> ELSE IF c =
            119823 THEN <<80>> ELSE IF c = 119824 THEN <<81>> ELSE IF c =
            119825 THEN <<82>> ELSE <<c>> ELSE IF c < 119829 THEN IF c =
            119826 THEN <<83>> ELSE IF c = 119827 THEN <<84>> ELSE IF c =
            119828 THEN <<85>> ELSE <<c>> ELSE IF c = 119829 THEN <<86>> ELSE
            IF c = 119830 THEN <<87>> ELSE IF c = 119831 THEN <<88>> ELSE
            <<c>> ELSE IF c < 119837 THEN IF c < 119834 THEN IF c = 119832
            THEN <<89>> ELSE IF c = 119833 THEN <<90>> ELSE <<c>> ELSE IF c =
            119834 THEN <<97>> ELSE IF c = 119835 THEN <<98>> ELSE IF c =
            119836 THEN <<99>> ELSE <<c>> ELSE IF c < 119840 THEN IF c =
            119837 THEN <<100>> ELSE IF c = 119838 THEN <<101>> ELSE IF c =
            119839 THEN <<102>> ELSE <<c>> ELSE IF c = 119840 THEN <<103>>
            ELSE IF c = 119841 THEN <<104>> ELSE IF c = 119842 THEN <<105>>
            ELSE <<c>> ELSE IF c < 119854 THEN IF c < 119848 THEN IF c <
            119845 THEN IF c = 119843 THEN <<106>> ELSE IF c = 119844 THEN
            <<107>> ELSE <<c>> ELSE IF c = 119845 THEN <<108>> ELSE IF c =
            119846 THEN <<109>> ELSE IF c = 119847 THEN <<110>> ELSE <<c>>
            ELSE IF c < 119851 THEN IF c = 119848 THEN <<111>> ELSE IF c =
            119849 THEN <<112>> ELSE IF c = 119850 THEN <<113>> ELSE <<c>>
            ELSE IF c = 119851 THEN <<114>> ELSE IF c = 119852 THEN <<115>>
            ELSE IF c = 119853 THEN <<116>> ELSE <<c>> ELSE IF c < 119860 THEN
            IF c < 119857 THEN IF c = 119854 THEN <<117>> ELSE IF c = 119855
            THEN <<118>> ELSE IF c = 119856 THEN <<119>> ELSE <<c>> ELSE IF c
            = 119857 THEN <<120>> ELSE IF c = 119858 THEN <<121>> ELSE IF c =
            119859 THEN <<122>> ELSE <<c>> ELSE IF c < 119863 THEN IF c =
            119860 THEN <<65>> ELSE IF c = 119861 THEN <<66>> ELSE IF c =
            119862 THEN <<67>> ELSE <<c>> ELSE IF c = 119863 THEN <<68>> ELSE
            IF c = 119864 THEN <<69>> ELSE IF c = 119865 THEN <<70>> ELSE
            <<c>> ELSE IF c < 119888 THEN IF c < 119877 THEN IF c < 119871
            THEN IF c < 119868 THEN IF c = 119866 THEN <<71>> ELSE IF c =
            119867 THEN <<72>> ELSE <<c>> ELSE IF c = 119868 THEN <<73>> ELSE
            IF c = 119869 THEN <<74>> ELSE IF c = 119870 THEN <<75>> ELSE
            <<c>> ELSE IF c < 119874 THEN IF c = 119871 THEN <<76>> ELSE IF c
            = 119872 THEN <<77>> ELSE IF c = 119873 THEN <<78>> ELSE <<c>>
            ELSE IF c = 119874 THEN <<79>> ELSE IF c = 119875 THEN <<80>> ELSE
            IF c = 119876 THEN <<81>> ELSE <<c>> ELSE IF c < 119882 THEN IF c
            < 119879 THEN IF c = 119877 THEN <<82>> ELSE IF c = 119878 THEN
            <<83>> ELSE <<c>> ELSE IF c = 119879 THEN <<84>> ELSE IF c =
            119880 THEN <<85>> ELSE IF c = 119881 THEN <<86>> ELSE <<c>> ELSE
            IF c < 119885 THEN IF c = 119882 THEN <<87>> ELSE IF c = 119883
            THEN <<88>> ELSE IF c = 119884 THEN <<89>> ELSE <<c>> ELSE IF c =
            119885 THEN <<90>> ELSE IF c = 119886 THEN <<97>> ELSE IF c =
            119887 THEN <<98>> ELSE <<c>> ELSE IF c < 119900 THEN IF c <
            119894 THEN IF c < 119890 THEN IF c = 119888 THEN <<99>> ELSE IF c
            = 119889 THEN <<100>> ELSE <<c>> ELSE IF c = 119890 THEN <<101>>
            ELSE IF c = 119891 THEN <<102>> ELSE IF c = 119892 THEN <<103>>
            ELSE <<c>> ELSE IF c < 119897 THEN IF c = 119894 THEN <<105>> ELSE
            IF c = 119895 THEN <<106>> ELSE IF c = 119896 THEN <<107>> ELSE
            <<c>> ELSE IF c = 119897 THEN <<108>> ELSE IF c = 119898 THEN
            <<109>> ELSE IF c = 119899 THEN <<110>> ELSE <<c>> ELSE IF c <
            119906 THEN IF c < 119903 THEN IF c = 119900 THEN <<111>> ELSE IF
            c = 119901 THEN <<112>> ELSE IF c = 119902 THEN <<113>> ELSE <<c>>
            ELSE IF c = 119903 THEN <<114>> ELSE IF c = 119904 THEN <<115>>
            ELSE IF c = 119905 THEN <<116>> ELSE <<c>> ELSE IF c < 119909 THEN
            IF c = 119906 THEN <<117>> ELSE IF c = 119907 THEN <<118>> ELSE IF
            c = 119908 THEN <<119>> ELSE <<c>> ELSE IF c = 119909 THEN <<120>>
            ELSE IF c = 119910 THEN <<121>> ELSE IF c = 119911 THEN <<122>>
            ELSE <<c>> ELSE IF c < 119957 THEN IF c < 119934 THEN IF c <
            119923 THEN IF c < 119917 THEN IF c < 119914 THEN IF c = 119912
            THEN <<65>> ELSE IF c = 119913 THEN <<66>> ELSE <<c>> ELSE IF c =
            119914 THEN <<67>> ELSE IF c = 119915 THEN <<68>> ELSE IF c =
            119916 THEN <<69>> ELSE <<c>> ELSE IF c < 119920 THEN IF c =
            119917 THEN <<70>> ELSE IF c = 119918 THEN <<71>> ELSE IF c =
            119919 THEN <<72>> ELSE <<c>> ELSE IF c = 119920 THEN <<73>> ELSE
            IF c = 119921 THEN <<74>> ELSE IF c = 119922 THEN <<75>> ELSE
            <<c>> ELSE IF c < 119928 THEN IF c < 119925 THEN IF c = 119923
            THEN <<76>> ELSE IF c = 119924 THEN <<77>> ELSE <<c>> ELSE IF c =
            119925 THEN <<78>> ELSE IF c = 119926 THEN <<79>> ELSE IF c =
            119927 THEN <<80>> ELSE <<c>> ELSE IF c < 119931 THEN IF c =
            119928 THEN <<81>> ELSE IF c = 119929 THEN <<82>> ELSE IF c =
            119930 THEN <<83>> ELSE <<c>> ELSE IF c = 119931 THEN <<84>> ELSE
            IF c = 119932 THEN <<85>> ELSE IF c = 119933 THEN <<86>> ELSE
            <<c>> ELSE IF c < 119945 THEN IF c < 119939 THEN IF c < 119936
            THEN IF c = 119934 THEN <<87>> ELSE IF c = 119935 THEN <<88>> ELSE
            <<c>> ELSE IF c = 119936 THEN <<89>> ELSE IF c = 119937 THEN
            <<90>> ELSE IF c = 119938 THEN <<97>> ELSE <<c>> ELSE IF c <
            119942 THEN IF c = 119939 THEN <<98>> ELSE IF c = 119940 THEN
            <<99>> ELSE IF c = 119941 THEN <<100>> ELSE <<c>> ELSE IF c =
            119942 THEN <<101>> ELSE IF c = 119943 THEN <<102>> ELSE IF c =
            119944 THEN <<103>> ELSE <<c>> ELSE IF c < 119951 THEN IF c <
            119948 THEN IF c = 119945 THEN <<104>> ELSE IF c = 119946 THEN
            <<105>> ELSE IF c = 119947 THEN <<106>> ELSE <<c>> ELSE IF c =
            119948 THEN <<107>> ELSE IF c = 119949 THEN <<108>> ELSE IF c =
            119950 THEN <<109>> ELSE <<c>> ELSE IF c < 119954 THEN IF c =
            119951 THEN <<110>> ELSE IF c = 119952 THEN <<111>> ELSE IF c =
            119953 THEN <<112>> ELSE <<c>> ELSE IF c = 119954 THEN <<113>>
            ELSE IF c = 119955 THEN <<114>> ELSE IF c = 119956 THEN <<115>>
            ELSE <<c>> ELSE IF c < 119988 THEN IF c < 119973 THEN IF c <
            119962 THEN IF c < 119959 THEN IF c = 119957 THEN <<116>> ELSE IF
            c = 119958 THEN <<117>> ELSE <<c>> ELSE IF c = 119959 THEN <<118>>
            ELSE IF c = 119960 THEN <<119>> ELSE IF c = 119961 THEN <<120>>
            ELSE <<c>> ELSE IF c < 119966 THEN IF c = 119962 THEN <<121>> ELSE
            IF c = 119963 THEN <<122>> ELSE IF c = 119964 THEN <<65>> ELSE
            <<c>> ELSE IF c = 119966 THEN <<67>> ELSE IF c = 119967 THEN
            <<68>> ELSE IF c = 119970 THEN <<71>> ELSE <<c>> ELSE IF c <
            119982 THEN IF c < 119978 THEN IF c = 119973 THEN <<74>> ELSE IF c
            = 119974 THEN <<75>> ELSE IF c = 119977 THEN <<78>> ELSE <<c>>
            ELSE IF c = 119978 THEN <<79>> ELSE IF c = 119979 THEN <<80>> ELSE
            IF c = 119980 THEN <<81>> ELSE <<c>> ELSE IF c < 119985 THEN IF c
            = 119982 THEN <<83>> ELSE IF c = 119983 THEN <<84>> ELSE IF c =
            119984 THEN <<85>> ELSE <<c>> ELSE IF c = 119985 THEN <<86>> ELSE
            IF c = 119986 THEN <<87>> ELSE IF c = 119987 THEN <<88>> ELSE
            <<c>> ELSE IF c < 120001 THEN IF c < 119993 THEN IF c < 119990
            THEN IF c = 119988 THEN <<89>> ELSE IF c = 119989 THEN <<90>> ELSE
            <<c>> ELSE IF c = 119990 THEN <<97>> ELSE IF c = 119991 THEN
            <<98>> ELSE IF c = 119992 THEN <<99>> ELSE <<c>> ELSE IF c <
            119998 THEN IF c = 119993 THEN <<100>> ELSE IF c = 119995 THEN
            <<102>> ELSE IF c = 119997 THEN <<104>> ELSE <<c>> ELSE IF c =
            119998 THEN <<105>> ELSE IF c = 119999 THEN <<106>> ELSE IF c =
            120000 THEN <<107>> ELSE <<c>> ELSE IF c < 120008 THEN IF c <
            120005 THEN IF c = 120001 THEN <<108>> ELSE IF c = 120002 THEN
            <<109>> ELSE IF c = 120003 THEN <<110>> ELSE <<c>> ELSE IF c =
            120005 THEN <<112>> ELSE IF c = 120006 THEN <<113>> ELSE IF c =
            120007 THEN <<114>> ELSE <<c>> ELSE IF c < 120011 THEN IF c =
            120008 THEN <<115>> ELSE IF c = 120009 THEN <<116>> ELSE IF c =
            120010 THEN <<117>> ELSE <<c>> ELSE IF c = 120011 THEN <<118>>
            ELSE IF c = 120012 THEN <<119>> ELSE IF c = 120013 THEN <<120>>
            ELSE <<c>> ELSE IF c < 120110 THEN IF c < 120059 THEN IF c <
            120036 THEN IF c < 120025 THEN IF c < 120019 THEN IF c < 120016
            THEN IF c = 120014 THEN <<121>> ELSE IF c = 120015 THEN <<122>>
            ELSE <<c>> ELSE IF c = 120016 THEN <<65>> ELSE IF c = 120017 THEN
            <<66>> ELSE IF c = 120018 THEN <<67>> ELSE <<c>> ELSE IF c <
            120022 THEN IF c = 120019 THEN <<68>> ELSE IF c = 120020 THEN
            <<69>> ELSE IF c = 120021 THEN <<70>> ELSE <<c>> ELSE IF c =
            120022 THEN <<71>> ELSE IF c = 120023 THEN <<72>> ELSE IF c =
            120024 THEN <<73>> ELSE <<c>> ELSE IF c < 120030 THEN IF c <
            120027 THEN IF c = 120025 THEN <<74>> ELSE IF c = 120026 THEN
            <<75>> ELSE <<c>> ELSE IF c = 120027 THEN <<76>> ELSE IF c =
            120028 THEN <<77>> ELSE IF c = 120029 THEN <<78>> ELSE <<c>> ELSE
            IF c < 120033 THEN IF c = 120030 THEN <<79>> ELSE IF c = 120031
            THEN <<80>> ELSE IF c = 120032 THEN <<81>> ELSE <<c>> ELSE IF c =
            120033 THEN <<82>> ELSE IF c = 120034 THEN <<83>> ELSE IF c =
            120035 THEN <<84>> ELSE <<c>> ELSE IF c < 120047 THEN IF c <
            120041 THEN IF c < 120038 THEN IF c = 120036 THEN <<85>> ELSE IF c
            = 120037 THEN <<86>> ELSE <<c>> ELSE IF c = 120038 THEN <<87>>
            ELSE IF c = 120039 THEN <<88>> ELSE IF c = 120040 THEN <<89>> ELSE
            <<c>> ELSE IF c < 120044 THEN IF c = 120041 THEN <<90>> ELSE IF c
            = 120042 THEN <<97>> ELSE IF c = 120043 THEN <<98>> ELSE <<c>>
            ELSE IF c = 120044 THEN <<99>> ELSE IF c = 120045 THEN <<100>>
            ELSE IF c = 120046 THEN <<101>> ELSE <<c>> ELSE IF c < 120053 THEN
            IF c < 120050 THEN IF c = 120047 THEN <<102>> ELSE IF c = 120048
            THEN <<103>> ELSE IF c = 120049 THEN <<104>> ELSE <<c>> ELSE IF c
            = 120050 THEN <<105>> ELSE IF c = 120051 THEN <<106>> ELSE IF c =
            120052 THEN <<107>> ELSE <<c>> ELSE IF c < 120056 THEN IF c =
            120053 THEN <<108>> ELSE IF c = 120054 THEN <<109>> ELSE IF c =
            120055 THEN <<110>> ELSE <<c>> ELSE IF c = 120056 THEN <<111>>
            ELSE IF c = 120057 THEN <<112>> ELSE IF c = 120058 THEN <<113>>
            ELSE <<c>> ELSE IF c < 120086 THEN IF c < 120071 THEN IF c <
            120064 THEN IF c < 120061 THEN IF c = 120059 THEN <<114>> ELSE IF
            c = 120060 THEN <<115>> ELSE <<c>> ELSE IF c = 120061 THEN <<116>>
            ELSE IF c = 120062 THEN <<117>> ELSE IF c = 120063 THEN <<118>>
            ELSE <<c>> ELSE IF c < 120067 THEN IF c = 120064 THEN <<119>> ELSE
            IF c = 120065 THEN <<120>> ELSE IF c = 120066 THEN <<121>> ELSE
            <<c>> ELSE IF c = 120067 THEN <<122>> ELSE IF c = 120068 THEN
            <<65>> ELSE IF c = 120069 THEN <<66>> ELSE <<c>> ELSE IF c <
            120079 THEN IF c < 120074 THEN IF c = 120071 THEN <<68>> ELSE IF c
            = 120072 THEN <<69>> ELSE IF c = 120073 THEN <<70>> ELSE <<c>>
            ELSE IF c = 120074 THEN <<71>> ELSE IF c = 120077 THEN <<74>> ELSE
            IF c = 120078 THEN <<75>> ELSE <<c>> ELSE IF c < 120082 THEN IF c
            = 120079 THEN <<76>> ELSE IF c = 120080 THEN <<77>> ELSE IF c =
            120081 THEN <<78>> ELSE <<c>> ELSE IF c = 120082 THEN <<79>> ELSE
            IF c = 120083 THEN <<80>> ELSE IF c = 120084 THEN <<81>> ELSE
            <<c>> ELSE IF c < 120098 THEN IF c < 120091 THEN IF c < 120088
            THEN IF c = 120086 THEN <<83>> ELSE IF c = 120087 THEN <<84>> ELSE
            <<c>> ELSE IF c = 120088 THEN <<85>> ELSE IF c = 120089 THEN
            <<86>> ELSE IF c = 120090 THEN <<87>> ELSE <<c>> ELSE IF c <
            120095 THEN IF c = 120091 THEN <<88>> ELSE IF c = 120092 THEN
            <<89>> ELSE IF c = 120094 THEN <<97>> ELSE <<c>> ELSE IF c =
            120095 THEN <<98>> ELSE IF c = 120096 THEN <<99>> ELSE IF c =
            120097 THEN <<100>> ELSE <<c>> ELSE IF c < 120104 THEN IF c <
            120101 THEN IF c = 120098 THEN <<101>> ELSE IF c = 120099 THEN
            <<102>> ELSE IF c = 120100 THEN <<103>> ELSE <<c>> ELSE IF c =
            120101 THEN <<104>> ELSE IF c = 120102 THEN <<105>> ELSE IF c =
            120103 THEN <<106>> ELSE <<c>> ELSE IF c < 120107 THEN IF c =
            120104 THEN <<107>> ELSE IF c = 120105 THEN <<108>> ELSE IF c =
            120106 THEN <<109>> ELSE <<c>> ELSE IF c = 120107 THEN <<110>>
            ELSE IF c = 120108 THEN <<111>> ELSE IF c = 120109 THEN <<112>>
            ELSE <<c>> ELSE IF c < 120162 THEN IF c < 120138 THEN IF c <
            120121 THEN IF c < 120115 THEN IF c < 120112 THEN IF c = 120110
            THEN <<113>> ELSE IF c = 120111 THEN <<114>> ELSE <<c>> ELSE IF c
            = 120112 THEN <<115>> ELSE IF c = 120113 THEN <<116>> ELSE IF c =
            120114 THEN <<117>> ELSE <<c>> ELSE IF c < 120118 THEN IF c =
            120115 THEN <<118>> ELSE IF c = 120116 THEN <<119>> ELSE IF c =
            120117 THEN <<120>> ELSE <<c>> ELSE IF c = 120118 THEN <<121>>
            ELSE IF c = 120119 THEN <<122>> ELSE IF c = 120120 THEN <<65>>
            ELSE <<c>> ELSE IF c < 120128 THEN IF c < 120124 THEN IF c =
            120121 THEN <<66>> ELSE IF c = 120123 THEN <<68>> ELSE <<c>> ELSE
            IF c = 120124 THEN <<69>> ELSE IF c = 120125 THEN <<70>> ELSE IF c
            = 120126 THEN <<71>> ELSE <<c>> ELSE IF c < 120131 THEN IF c =
            120128 THEN <<73>> ELSE IF c = 120129 THEN <<74>> ELSE IF c =
            120130 THEN <<75>> ELSE <<c>> ELSE IF c = 120131 THEN <<76>> ELSE
            IF c = 120132 THEN <<77>> ELSE IF c = 120134 THEN <<79>> ELSE
            <<c>> ELSE IF c < 120150 THEN IF c < 120143 THEN IF c < 120140
            THEN IF c = 120138 THEN <<83>> ELSE IF c = 120139 THEN <<84>> ELSE
            <<c>> ELSE IF c = 120140 THEN <<85>> ELSE IF c = 120141 THEN
            <<86>> ELSE IF c = 120142 THEN <<87>> ELSE <<c>> ELSE IF c <
            120147 THEN IF c = 120143 THEN <<88>> ELSE IF c = 120144 THEN
            <<89>> ELSE IF c = 120146 THEN <<97>> ELSE <<c>> ELSE IF c =
            120147 THEN <<98>> ELSE IF c = 120148 THEN <<99>> ELSE IF c =
            120149 THEN <<100>> ELSE <<c>> ELSE IF c < 120156 THEN IF c <
            120153 THEN IF c = 120150 THEN <<101>> ELSE IF c = 120151 THEN
            <<102>> ELSE IF c = 120152 THEN <<103>> ELSE <<c>> ELSE IF c =
            120153 THEN <<104>> ELSE IF c = 120154 THEN <<105>> ELSE IF c =
            120155 THEN <<106>> ELSE <<c>> ELSE IF c < 120159 THEN IF c =
            120156 THEN <<107>> ELSE IF c = 120157 THEN <<108>> ELSE IF c =
            120158 THEN <<109>> ELSE <<c>> ELSE IF c = 120159 THEN <<110>>
            ELSE IF c = 120160 THEN <<111>> ELSE IF c = 120161 THEN <<112>>
            ELSE <<c>> ELSE IF c < 120185 THEN IF c < 120173 THEN IF c <
            120167 THEN IF c < 120164 THEN IF c = 120162 THEN <<113>> ELSE IF
            c = 120163 THEN <<114>> ELSE <<c>> ELSE IF c = 120164 THEN <<115>>
            ELSE IF c = 120165 THEN <<116>> ELSE IF c = 120166 THEN <<117>>
            ELSE <<c>> ELSE IF c < 120170 THEN IF c = 120167 THEN <<118>> ELSE
            IF c = 120168 THEN <<119>> ELSE IF c = 120169 THEN <<120>> ELSE
            <<c>> ELSE IF c = 120170 THEN <<121>> ELSE IF c = 120171 THEN
            <<122>> ELSE IF c = 120172 THEN <<65>> ELSE <<c>> ELSE IF c <
            120179 THEN IF c < 120176 THEN IF c = 120173 THEN <<66>> ELSE IF c
            = 120174 THEN <<67>> ELSE IF c = 120175 THEN <<68>> ELSE <<c>>
            ELSE IF c = 120176 THEN <<69>> ELSE IF c = 120177 THEN <<70>> ELSE
            IF c = 120178 THEN <<71>> ELSE <<c>> ELSE IF c < 120182 THEN IF c
            = 120179 THEN <<72>> ELSE IF c = 120180 THEN <<73>> ELSE IF c =
            120181 THEN <<74>> ELSE <<c>> ELSE IF c = 120182 THEN <<75>> ELSE
            IF c = 120183 THEN <<76>> ELSE IF c = 120184 THEN <<77>> ELSE
            <<c>> ELSE IF c < 120196 THEN IF c < 120190 THEN IF c < 120187
            THEN IF c = 120185 THEN <<78>> ELSE IF c = 120186 THEN <<79>> ELSE
            <<c>> ELSE IF c = 120187 THEN <<80>> ELSE IF c = 120188 THEN
            <<81>> ELSE IF c = 120189 THEN <<82>> ELSE <<c>> ELSE IF c <
            120193 THEN IF c = 120190 THEN <<83>> ELSE IF c = 120191 THEN
            <<84>> ELSE IF c = 120192 THEN <<85>> ELSE <<c>> ELSE IF c =
            120193 THEN <<86>> ELSE IF c = 120194 THEN <<87>> ELSE IF c =
            120195 THEN <<88>> ELSE <<c>> ELSE IF c < 120202 THEN IF c <
            120199 THEN IF c = 120196 THEN <<89>> ELSE IF c = 120197 THEN
            <<90>> ELSE IF c = 120198 THEN <<97>> ELSE <<c>> ELSE IF c =
            120199 THEN <<98>> ELSE IF c = 120200 THEN <<99>> ELSE IF c =
            120201 THEN <<100>> ELSE <<c>> ELSE IF c < 120205 THEN IF c =
            120202 THEN <<101>> ELSE IF c = 120203 THEN <<102>> ELSE IF c =
            120204 THEN <<103>> ELSE <<c>> ELSE IF c = 120205 THEN <<104>>
            ELSE IF c = 120206 THEN <<105>> ELSE IF c = 120207 THEN <<106>>
            ELSE <<c>> ELSE IF c < 126608 THEN IF c < 120572 THEN IF c <
            120389 THEN IF c < 120298 THEN IF c < 120253 THEN IF c < 120230
            THEN IF c < 120219 THEN IF c < 120213 THEN IF c < 120210 THEN IF c
            = 120208 THEN <<107>> ELSE IF c = 120209 THEN <<108>> ELSE <<c>>
            ELSE IF c = 120210 THEN <<109>> ELSE IF c = 120211 THEN <<110>>
            ELSE IF c = 120212 THEN <<111>> ELSE <<c>> ELSE IF c < 120216 THEN
            IF c = 120213 THEN <<112>> ELSE IF c = 120214 THEN <<113>> ELSE IF
            c = 120215 THEN <<114>> ELSE <<c>> ELSE IF c = 120216 THEN <<115>>
            ELSE IF c = 120217 THEN <<116>> ELSE IF c = 120218 THEN <<117>>
            ELSE <<c>> ELSE IF c < 120224 THEN IF c < 120221 THEN IF c =
            120219 THEN <<118>> ELSE IF c = 120220 THEN <<119>> ELSE <<c>>
            ELSE IF c = 120221 THEN <<120>> ELSE IF c = 120222 THEN <<121>>
            ELSE IF c = 120223 THEN <<122>> ELSE <<c>> ELSE IF c < 120227 THEN
            IF c = 120224 THEN <<65>> ELSE IF c = 120225 THEN <<66>> ELSE IF c
            = 120226 THEN <<67>> ELSE <<c>> ELSE IF c = 120227 THEN <<68>>
            ELSE IF c = 120228 THEN <<69>> ELSE IF c = 120229 THEN <<70>> ELSE
            <<c>> ELSE IF c < 120241 THEN IF c < 120235 THEN IF c < 120232
            THEN IF c = 120230 THEN <<71>> ELSE IF c = 120231 THEN <<72>> ELSE
            <<c>> ELSE IF c = 120232 THEN <<73>> ELSE IF c = 120233 THEN
            <<74>> ELSE IF c = 120234 THEN <<75>> ELSE <<c>> ELSE IF c <
            120238 THEN IF c = 120235 THEN <<76>> ELSE IF c = 120236 THEN
            <<77>> ELSE IF c = 120237 THEN <<78>> ELSE <<c>> ELSE IF c =
            120238 THEN <<79>> ELSE IF c = 120239 THEN <<80>> ELSE IF c =
            120240 THEN <<81>> ELSE <<c>> ELSE IF c < 120247 THEN IF c <
            120244 THEN IF c = 120241 THEN <<82>> ELSE IF c = 120242 THEN
            <<83>> ELSE IF c = 120243 THEN <<84>> ELSE <<c>> ELSE IF c =
            120244 THEN <<85>> ELSE IF c = 120245 THEN <<86>> ELSE IF c =
            120246 THEN <<87>> ELSE <<c>> ELSE IF c < 120250 THEN IF c =
            120247 THEN <<88>> ELSE IF c = 120248 THEN <<89>> ELSE IF c =
            120249 THEN <<90>> ELSE <<c>> ELSE IF c = 120250 THEN <<97>> ELSE
            IF c = 120251 THEN <<98>> ELSE IF c = 120252 THEN <<99>> ELSE
            <<c>> ELSE IF c < 120275 THEN IF c < 120264 THEN IF c < 120258
            THEN IF c < 120255 THEN IF c = 120253 THEN <<100>> ELSE IF c =
            120254 THEN <<101>> ELSE <<c>> ELSE IF c = 120255 THEN <<102>>
            ELSE IF c = 120256 THEN <<103>> ELSE IF c = 120257 THEN <<104>>
            ELSE <<c>> ELSE IF c < 120261 THEN IF c = 120258 THEN <<105>> ELSE
            IF c = 120259 THEN <<106>> ELSE IF c = 120260 THEN <<107>> ELSE
            <<c>> ELSE IF c = 120261 THEN <<108>> ELSE IF c = 120262 THEN
            <<109>> ELSE IF c = 120263 THEN <<110>> ELSE <<c>> ELSE IF c <
            120269 THEN IF c < 120266 THEN IF c = 120264 THEN <<111>> ELSE IF
            c = 120265 THEN <<112>> ELSE <<c>> ELSE IF c = 120266 THEN <<113>>
            ELSE IF c = 120267 THEN <<114>> ELSE IF c = 120268 THEN <<115>>
            ELSE <<c>> ELSE IF c < 120272 THEN IF c = 120269 THEN <<116>> ELSE
            IF c = 120270 THEN <<117>> ELSE IF c = 120271 THEN <<118>> ELSE
            <<c>> ELSE IF c = 120272 THEN <<119>> ELSE IF c = 120273 THEN
            <<120>> ELSE IF c = 120274 THEN <<121>> ELSE <<c>> ELSE IF c <
            120286 THEN IF c < 120280 THEN IF c < 120277 THEN IF c = 120275
            THEN <<122>> ELSE IF c = 120276 THEN <<65>> ELSE <<c>> ELSE IF c =
            120277 THEN <<66>> ELSE IF c = 120278 THEN <<67>> ELSE IF c =
            120279 THEN <<68>> ELSE <<c>> ELSE IF c < 120283 THEN IF c =
            120280 THEN <<69>> ELSE IF c = 120281 THEN <<70>> ELSE IF c =
            120282 THEN <<71>> ELSE <<c>> ELSE IF c = 120283 THEN <<72>> ELSE
            IF c = 120284 THEN <<73>> ELSE IF c = 120285 THEN <<74>> ELSE
            <<c>> ELSE IF c < 120292 THEN IF c < 120289 THEN IF c = 120286
            THEN <<75>> ELSE IF c = 120287 THEN <<76>> ELSE IF c = 120288 THEN
            <<77>> ELSE <<c>> ELSE IF c = 120289 THEN <<78>> ELSE IF c =
            120290 THEN <<79>> ELSE IF c = 120291 THEN <<80>> ELSE <<c>> ELSE
            IF c < 120295 THEN IF c = 120292 THEN <<81>> ELSE IF c = 120293
            THEN <<82>> ELSE IF c = 120294 THEN <<83>> ELSE <<c>> ELSE IF c =
            120295 THEN <<84>> ELSE IF c = 120296 THEN <<85>> ELSE IF c =
            120297 THEN <<86>> ELSE <<c>> ELSE IF c < 120343 THEN IF c <
            120320 THEN IF c < 120309 THEN IF c < 120303 THEN IF c < 120300
            THEN IF c = 120298 THEN <<87>> ELSE IF c = 120299 THEN <<88>> ELSE
            <<c>> ELSE IF c = 120300 THEN <<89>> ELSE IF c = 120301 THEN
            <<90>> ELSE IF c = 120302 THEN <<97>> ELSE <<c>> ELSE IF c <
            120306 THEN IF c = 120303 THEN <<98>> ELSE IF c = 120304 THEN
            <<99>> ELSE IF c = 120305 THEN <<100>> ELSE <<c>> ELSE IF c =
            120306 THEN <<101>> ELSE IF c = 120307 THEN <<102>> ELSE IF c =
            120308 THEN <<103>> ELSE <<c>> ELSE IF c < 120314 THEN IF c <
            120311 THEN IF c = 120309 THEN <<104>> ELSE IF c = 120310 THEN
            <<105>> ELSE <<c>> ELSE IF c = 120311 THEN <<106>> ELSE IF c =
            120312 THEN <<107>> ELSE IF c = 120313 THEN <<108>> ELSE <<c>>
            ELSE IF c < 120317 THEN IF c = 120314 THEN <<109>> ELSE IF c =
            120315 THEN <<110>> ELSE IF c = 120316 THEN <<111>> ELSE <<c>>
            ELSE IF c = 120317 THEN <<112>> ELSE IF c = 120318 THEN <<113>>
            ELSE IF c = 120319 THEN <<114>> ELSE <<c>> ELSE IF c < 120331 THEN
            IF c < 120325 THEN IF c < 120322 THEN IF c = 120320 THEN <<115>>
            ELSE IF c = 120321 THEN <<116>> ELSE <<c>> ELSE IF c = 120322 THEN
            <<117>> ELSE IF c = 120323 THEN <<118>> ELSE IF c = 120324 THEN
            <<119>> ELSE <<c>> ELSE IF c < 120328 THEN IF c = 120325 THEN
            <<120>> ELSE IF c = 120326 THEN <<121>> ELSE IF c = 120327 THEN
            <<122>> ELSE <<c>> ELSE IF c = 120328 THEN <<65>> ELSE IF c =
            120329 THEN <<66>> ELSE IF c = 120330 THEN <<67>> ELSE <<c>> ELSE
            IF c < 120337 THEN IF c < 120334 THEN IF c = 120331 THEN <<68>>
            ELSE IF c = 120332 THEN <<69>> ELSE IF c = 120333 THEN <<70>> ELSE
            <<c>> ELSE IF c = 120334 THEN <<71>> ELSE IF c = 120335 THEN
            <<72>> ELSE IF c = 120336 THEN <<73>> ELSE <<c>> ELSE IF c <
            120340 THEN IF c = 120337 THEN <<74>> ELSE IF c = 120338 THEN
            <<75>> ELSE IF c = 120339 THEN <<76>> ELSE <<c>> ELSE IF c =
            120340 THEN <<77>> ELSE IF c = 120341 THEN <<78>> ELSE IF c =
            120342 THEN <<79>> ELSE <<c>> ELSE IF c < 120366 THEN IF c <
            120354 THEN IF c < 120348 THEN IF c < 120345 THEN IF c = 120343
            THEN <<80>> ELSE IF c = 120344 THEN <<81>> ELSE <<c>> ELSE IF c =
            120345 THEN <<82>> ELSE IF c = 120346 THEN <<83>> ELSE IF c =
            120347 THEN <<84>> ELSE <<c>> ELSE IF c < 120351 THEN IF c =
            120348 THEN <<85>> ELSE IF c = 120349 THEN <<86>> ELSE IF c =
            120350 THEN <<87>> ELSE <<c>> ELSE IF c = 120351 THEN <<88>> ELSE
            IF c = 120352 THEN <<89>> ELSE IF c = 120353 THEN <<90>> ELSE
            <<c>> ELSE IF c < 120360 THEN IF c < 120357 THEN IF c = 120354
            THEN <<97>> ELSE IF c = 120355 THEN <<98>> ELSE IF c = 120356 THEN
            <<99>> ELSE <<c>> ELSE IF c = 120357 THEN <<100>> ELSE IF c =
            120358 THEN <<101>> ELSE IF c = 120359 THEN <<102>> ELSE <<c>>
            ELSE IF c < 120363 THEN IF c = 120360 THEN <<103>> ELSE IF c =
            120361 THEN <<104>> ELSE IF c = 120362 THEN <<105>> ELSE <<c>>
            ELSE IF c = 120363 THEN <<106>> ELSE IF c = 120364 THEN <<107>>
            ELSE IF c = 120365 THEN <<108>> ELSE <<c>> ELSE IF c < 120377 THEN
            IF c < 120371 THEN IF c < 120368 THEN IF c = 120366 THEN <<109>>
            ELSE IF c = 120367 THEN <<110>> ELSE <<c>> ELSE IF c = 120368 THEN
            <<111>> ELSE IF c = 120369 THEN <<112>> ELSE IF c = 120370 THEN
            <<113>> ELSE <<c>> ELSE IF c < 120374 THEN IF c = 120371 THEN
            <<114>> ELSE IF c = 120372 THEN <<115>> ELSE IF c = 120373 THEN
            <<116>> ELSE <<c>> ELSE IF c = 120374 THEN <<117>> ELSE IF c =
            120375 THEN <<118>> ELSE IF c = 120376 THEN <<119>> ELSE <<c>>
            ELSE IF c < 120383 THEN IF c < 120380 THEN IF c = 120377 THEN
            <<120>> ELSE IF c = 120378 THEN <<121>> ELSE IF c = 120379 THEN
            <<122>> ELSE <<c>> ELSE IF c = 120380 THEN <<65>> ELSE IF c =
            120381 THEN <<66>> ELSE IF c = 120382 THEN <<67>> ELSE <<c>> ELSE
            IF c < 120386 THEN IF c = 120383 THEN <<68>> ELSE IF c = 120384
            THEN <<69>> ELSE IF c = 120385 THEN <<70>> ELSE <<c>> ELSE IF c =
            120386 THEN <<71>> ELSE IF c = 120387 THEN <<72>> ELSE IF c =
            120388 THEN <<73>> ELSE <<c>> ELSE IF c < 120479 THEN IF c <
            120434 THEN IF c < 120411 THEN IF c < 120400 THEN IF c < 120394
            THEN IF c < 120391 THEN IF c = 120389 THEN <<74>> ELSE IF c =
            120390 THEN <<75>> ELSE <<c>> ELSE IF c = 120391 THEN <<76>> ELSE
            IF c = 120392 THEN <<77>> ELSE IF c = 120393 THEN <<78>> ELSE
            <<c>> ELSE IF c < 120397 THEN IF c = 120394 THEN <<79>> ELSE IF c
            = 120395 THEN <<80>> ELSE IF c = 120396 THEN <<81>> ELSE <<c>>
            ELSE IF c = 120397 THEN <<82>> ELSE IF c = 120398 THEN <<83>> ELSE
            IF c = 120399 THEN <<84>> ELSE <<c>> ELSE IF c < 120405 THEN IF c
            < 120402 THEN IF c = 120400 THEN <<85>> ELSE IF c = 120401 THEN
            <<86>> ELSE <<c>> ELSE IF c = 120402 THEN <<87>> ELSE IF c =
            120403 THEN <<88>> ELSE IF c = 120404 THEN <<89>> ELSE <<c>> ELSE
            IF c < 120408 THEN IF c = 120405 THEN <<90>> ELSE IF c = 120406
            THEN <<97>> ELSE IF c = 120407 THEN <<98>> ELSE <<c>> ELSE IF c =
            120408 THEN <<99>> ELSE IF c = 120409 THEN <<100>> ELSE IF c =
            120410 THEN <<101>> ELSE <<c>> ELSE IF c < 120422 THEN IF c <
            120416 THEN IF c < 120413 THEN IF c = 120411 THEN <<102>> ELSE IF
            c = 120412 THEN <<103>> ELSE <<c>> ELSE IF c = 120413 THEN <<104>>
            ELSE IF c = 120414 THEN <<105>> ELSE IF c = 120415 THEN <<106>>
            ELSE <<c>> ELSE IF c < 120419 THEN IF c = 120416 THEN <<107>> ELSE
            IF c = 120417 THEN <<108>> ELSE IF c = 120418 THEN <<109>> ELSE
            <<c>> ELSE IF c = 120419 THEN <<110>> ELSE IF c = 120420 THEN
            <<111>> ELSE IF c = 120421 THEN <<112>> ELSE <<c>> ELSE IF c <
            120428 THEN IF c < 120425 THEN IF c = 120422 THEN <<113>> ELSE IF
            c = 120423 THEN <<114>> ELSE IF c = 120424 THEN <<115>> ELSE <<c>>
            ELSE IF c = 120425 THEN <<116>> ELSE IF c = 120426 THEN <<117>>
            ELSE IF c = 120427 THEN <<118>> ELSE <<c>> ELSE IF c < 120431 THEN
            IF c = 120428 THEN <<119>> ELSE IF c = 120429 THEN <<120>> ELSE IF
            c = 120430 THEN <<121>> ELSE <<c>> ELSE IF c = 120431 THEN <<122>>
            ELSE IF c = 120432 THEN <<65>> ELSE IF c = 120433 THEN <<66>> ELSE
            <<c>> ELSE IF c < 120456 THEN IF c < 120445 THEN IF c < 120439
            THEN IF c < 120436 THEN IF c = 120434 THEN <<67>> ELSE IF c =
            120435 THEN <<68>> ELSE <<c>> ELSE IF c = 120436 THEN <<69>> ELSE
            IF c = 120437 THEN <<70>> ELSE IF c = 120438 THEN <<71>> ELSE
            <<c>> ELSE IF c < 120442 THEN IF c = 120439 THEN <<72>> ELSE IF c
            = 120440 THEN <<73>> ELSE IF c = 120441 THEN <<74>> ELSE <<c>>
            ELSE IF c = 120442 THEN <<75>> ELSE IF c = 120443 THEN <<76>> ELSE
            IF c = 120444 THEN <<77>> ELSE <<c>> ELSE IF c < 120450 THEN IF c
            < 120447 THEN IF c = 120445 THEN <<78>> ELSE IF c = 120446 THEN
            <<79>> ELSE <<c>> ELSE IF c = 120447 THEN <<80>> ELSE IF c =
            120448 THEN <<81>> ELSE IF c = 120449 THEN <<82>> ELSE <<c>> ELSE
            IF c < 120453 THEN IF c = 120450 THEN <<83>> ELSE IF c = 120451
            THEN <<84>> ELSE IF c = 120452 THEN <<85>> ELSE <<c>> ELSE IF c =
            120453 THEN <<86>> ELSE IF c = 120454 THEN <<87>> ELSE IF c =
            120455 THEN <<88>> ELSE <<c>> ELSE IF c < 120467 THEN IF c <
            120461 THEN IF c < 120458 THEN IF c = 120456 THEN <<89>> ELSE IF c
            = 120457 THEN <<90>> ELSE <<c>> ELSE IF c = 120458 THEN <<97>>
            ELSE IF c = 120459 THEN <<98>> ELSE IF c = 120460 THEN <<99>> ELSE
            <<c>> ELSE IF c < 120464 THEN IF c = 120461 THEN <<100>> ELSE IF c
            = 120462 THEN <<101>> ELSE IF c = 120463 THEN <<102>> ELSE <<c>>
            ELSE IF c = 120464 THEN <<103>> ELSE IF c = 120465 THEN <<104>>
            ELSE IF c = 120466 THEN <<105>> ELSE <<c>> ELSE IF c < 120473 THEN
            IF c < 120470 THEN IF c = 120467 THEN <<106>> ELSE IF c = 120468
            THEN <<107>> ELSE IF c = 120469 THEN <<108>> ELSE <<c>> ELSE IF c
            = 120470 THEN <<109>> ELSE IF c = 120471 THEN <<110>> ELSE IF c =
            120472 THEN <<111>> ELSE <<c>> ELSE IF c < 120476 THEN IF c =
            120473 THEN <<112>> ELSE IF c = 120474 THEN <<113>> ELSE IF c =
            120475 THEN <<114>> ELSE <<c>> ELSE IF c = 120476 THEN <<115>>
            ELSE IF c = 120477 THEN <<116>> ELSE IF c = 120478 THEN <<117>>
            ELSE <<c>> ELSE IF c < 120526 THEN IF c < 120503 THEN IF c <
            120492 THEN IF c < 120484 THEN IF c < 120481 THEN IF c = 120479
            THEN <<118>> ELSE IF c = 120480 THEN <<119>> ELSE <<c>> ELSE IF c
            = 120481 THEN <<120>> ELSE IF c = 120482 THEN <<121>> ELSE IF c =
            120483 THEN <<122>> ELSE <<c>> ELSE IF c < 120489 THEN IF c =
            120484 THEN <<305>> ELSE IF c = 120485 THEN <<567>> ELSE IF c =
            120488 THEN <<913>> ELSE <<c>> ELSE IF c = 120489 THEN <<914>>
            ELSE IF c = 120490 THEN <<915>> ELSE IF c = 120491 THEN <<916>>
            ELSE <<c>> ELSE IF c < 120497 THEN IF c < 120494 THEN IF c =
            120492 THEN <<917>> ELSE IF c = 120493 THEN <<918>> ELSE <<c>>
            ELSE IF c = 120494 THEN <<919>> ELSE IF c = 120495 THEN <<920>>
            ELSE IF c = 120496 THEN <<921>> ELSE <<c>> ELSE IF c < 120500 THEN
            IF c = 120497 THEN <<922>> ELSE IF c = 120498 THEN <<923>> ELSE IF
            c = 120499 THEN <<924>> ELSE <<c>> ELSE IF c = 120500 THEN <<925>>
            ELSE IF c = 120501 THEN <<926>> ELSE IF c = 120502 THEN <<927>>
            ELSE <<c>> ELSE IF c < 120514 THEN IF c < 120508 THEN IF c <
            120505 THEN IF c = 120503 THEN <<928>> ELSE IF c = 120504 THEN
            <<929>> ELSE <<c>> ELSE IF c = 120505 THEN <<920>> ELSE IF c =
            120506 THEN <<931>> ELSE IF c = 120507 THEN <<932>> ELSE <<c>>
            ELSE IF c < 120511 THEN IF c = 120508 THEN <<933>> ELSE IF c =
            120509 THEN <<934>> ELSE IF c = 120510 THEN <<935>> ELSE <<c>>
            ELSE IF c = 120511 THEN <<936>> ELSE IF c = 120512 THEN <<937>>
            ELSE IF c = 120513 THEN <<8711>> ELSE <<c>> ELSE IF c < 120520
            THEN IF c < 120517 THEN IF c = 120514 THEN <<945>> ELSE IF c =
            120515 THEN <<946>> ELSE IF c = 120516 THEN <<947>> ELSE <<c>>
            ELSE IF c = 120517 THEN <<948>> ELSE IF c = 120518 THEN <<949>>
            ELSE IF c = 120519 THEN <<950>> ELSE <<c>> ELSE IF c < 120523 THEN
            IF c = 120520 THEN <<951>> ELSE IF c = 120521 THEN <<952>> ELSE IF
            c = 120522 THEN <<953>> ELSE <<c>> ELSE IF c = 120523 THEN <<954>>
            ELSE IF c = 120524 THEN <<955>> ELSE IF c = 120525 THEN <<956>>
            ELSE <<c>> ELSE IF c < 120549 THEN IF c < 120537 THEN IF c <
            120531 THEN IF c < 120528 THEN IF c = 120526 THEN <<957>> ELSE IF
            c = 120527 THEN <<958>> ELSE <<c>> ELSE IF c = 120528 THEN <<959>>
            ELSE IF c = 120529 THEN <<960>> ELSE IF c = 120530 THEN <<961>>
            ELSE <<c>> ELSE IF c < 120534 THEN IF c = 120531 THEN <<962>> ELSE
            IF c = 120532 THEN <<963>> ELSE IF c = 120533 THEN <<964>> ELSE
            <<c>> ELSE IF c = 120534 THEN <<965>> ELSE IF c = 120535 THEN
            <<966>> ELSE IF c = 120536 THEN <<967>> ELSE <<c>> ELSE IF c <
            120543 THEN IF c < 120540 THEN IF c = 120537 THEN <<968>> ELSE IF
            c = 120538 THEN <<969>> ELSE IF c = 120539 THEN <<8706>> ELSE
            <<c>> ELSE IF c = 120540 THEN <<949>> ELSE IF c = 120541 THEN
            <<952>> ELSE IF c = 120542 THEN <<954>> ELSE <<c>> ELSE IF c <
            120546 THEN IF c = 120543 THEN <<966>> ELSE IF c = 120544 THEN
            <<961>> ELSE IF c = 120545 THEN <<960>> ELSE <<c>> ELSE IF c =
            120546 THEN <<913>> ELSE IF c = 120547 THEN <<914>> ELSE IF c =
            120548 THEN <<915>> ELSE <<c>> ELSE IF c < 120560 THEN IF c <
            120554 THEN IF c < 120551 THEN IF c = 120549 THEN <<916>> ELSE IF
            c = 120550 THEN <<917>> ELSE <<c>> ELSE IF c = 120551 THEN <<918>>
            ELSE IF c = 120552 THEN <<919>> ELSE IF c = 120553 THEN <<920>>
            ELSE <<c>> ELSE IF c < 120557 THEN IF c = 120554 THEN <<921>> ELSE
            IF c = 120555 THEN <<922>> ELSE IF c = 120556 THEN <<923>> ELSE
            <<c>> ELSE IF c = 120557 THEN <<924>> ELSE IF c = 120558 THEN
            <<925>> ELSE IF c = 120559 THEN <<926>> ELSE <<c>> ELSE IF c <
            120566 THEN IF c < 120563 THEN IF c = 120560 THEN <<927>> ELSE IF
            c = 120561 THEN <<928>> ELSE IF c = 120562 THEN <<929>> ELSE <<c>>
            ELSE IF c = 120563 THEN <<920>> ELSE IF c = 120564 THEN <<931>>
            ELSE IF c = 120565 THEN <<932>> ELSE <<c>> ELSE IF c < 120569 THEN
            IF c = 120566 THEN <<933>> ELSE IF c = 120567 THEN <<934>> ELSE IF
            c = 120568 THEN <<935>> ELSE <<c>> ELSE IF c = 120569 THEN <<936>>
            ELSE IF c = 120570 THEN <<937>> ELSE IF c = 120571 THEN <<8711>>
            ELSE <<c>> ELSE IF c < 120753 THEN IF c < 120662 THEN IF c <
            120617 THEN IF c < 120594 THEN IF c < 120583 THEN IF c < 120577
            THEN IF c < 120574 THEN IF c = 120572 THEN <<945>> ELSE IF c =
            120573 THEN <<946>> ELSE <<c>> ELSE IF c = 120574 THEN <<947>>
            ELSE IF c = 120575 THEN <<948>> ELSE IF c = 120576 THEN <<949>>
            ELSE <<c>> ELSE IF c < 120580 THEN IF c = 120577 THEN <<950>> ELSE
            IF c = 120578 THEN <<951>> ELSE IF c = 120579 THEN <<952>> ELSE
            <<c>> ELSE IF c = 120580 THEN <<953>> ELSE IF c = 120581 THEN
            <<954>> ELSE IF c = 120582 THEN <<955>> ELSE <<c>> ELSE IF c <
            120588 THEN IF c < 120585 THEN IF c = 120583 THEN <<956>> ELSE IF
            c = 120584 THEN <<957>> ELSE <<c>> ELSE IF c = 120585 THEN <<958>>
            ELSE IF c = 120586 THEN <<959>> ELSE IF c = 120587 THEN <<960>>
            ELSE <<c>> ELSE IF c < 120591 THEN IF c = 120588 THEN <<961>> ELSE
            IF c = 120589 THEN <<962>> ELSE IF c = 120590 THEN <<963>> ELSE
            <<c>> ELSE IF c = 120591 THEN <<964>> ELSE IF c = 120592 THEN
            <<965>> ELSE IF c = 120593 THEN <<966>> ELSE <<c>> ELSE IF c <
            120605 THEN IF c < 120599 THEN IF c < 120596 THEN IF c = 120594
            THEN <<967>> ELSE IF c = 120595 THEN <<968>> ELSE <<c>> ELSE IF c
            = 120596 THEN <<969>> ELSE IF c = 120597 THEN <<8706>> ELSE IF c =
            120598 THEN <<949>> ELSE <<c>> ELSE IF c < 120602 THEN IF c =
            120599 THEN <<952>> ELSE IF c = 120600 THEN <<954>> ELSE IF c =
            120601 THEN <<966>> ELSE <<c>> ELSE IF c = 120602 THEN <<961>>
            ELSE IF c = 120603 THEN <<960>> ELSE IF c = 120604 THEN <<913>>
            ELSE <<c>> ELSE IF c < 120611 THEN IF c < 120608 THEN IF c =
            120605 THEN <<914>> ELSE IF c = 120606 THEN <<915>> ELSE IF c =
            120607 THEN <<916>> ELSE <<c>> ELSE IF c = 120608 THEN <<917>>
            ELSE IF c = 120609 THEN <<918>> ELSE IF c = 120610 THEN <<919>>
            ELSE <<c>> ELSE IF c < 120614 THEN IF c = 120611 THEN <<920>> ELSE
            IF c = 120612 THEN <<921>> ELSE IF c = 120613 THEN <<922>> ELSE
            <<c>> ELSE IF c = 120614 THEN <<923>> ELSE IF c = 120615 THEN
            <<924>> ELSE IF c = 120616 THEN <<925>> ELSE <<c>> ELSE IF c <
            120639 THEN IF c < 120628 THEN IF c < 120622 THEN IF c < 120619
            THEN IF c = 120617 THEN <<926>> ELSE IF c = 120618 THEN <<927>>
            ELSE <<c>> ELSE IF c = 120619 THEN <<928>> ELSE IF c = 120620 THEN
            <<929>> ELSE IF c = 120621 THEN <<920>> ELSE <<c>> ELSE IF c <
            120625 THEN IF c = 120622 THEN <<931>> ELSE IF c = 120623 THEN
            <<932>> ELSE IF c = 120624 THEN <<933>> ELSE <<c>> ELSE IF c =
            120625 THEN <<934>> ELSE IF c = 120626 THEN <<935>> ELSE IF c =
            120627 THEN <<936>> ELSE <<c>> ELSE IF c < 120633 THEN IF c <
            120630 THEN IF c = 120628 THEN <<937>> ELSE IF c = 120629 THEN
            <<8711>> ELSE <<c>> ELSE IF c = 120630 THEN <<945>> ELSE IF c =
            120631 THEN <<946>> ELSE IF c = 120632 THEN <<947>> ELSE <<c>>
            ELSE IF c < 120636 THEN IF c = 120633 THEN <<948>> ELSE IF c =
            120634 THEN <<949>> ELSE IF c = 120635 THEN <<950>> ELSE <<c>>
            ELSE IF c = 120636 THEN <<951>> ELSE IF c = 120637 THEN <<952>>
            ELSE IF c = 120638 THEN <<953>> ELSE <<c>> ELSE IF c < 120650 THEN
            IF c < 120644 THEN IF c < 120641 THEN IF c = 120639 THEN <<954>>
            ELSE IF c = 120640 THEN <<955>> ELSE <<c>> ELSE IF c = 120641 THEN
            <<956>> ELSE IF c = 120642 THEN <<957>> ELSE IF c = 120643 THEN
            <<958>> ELSE <<c>> ELSE IF c < 120647 THEN IF c = 120644 THEN
            <<959>> ELSE IF c = 120645 THEN <<960>> ELSE IF c = 120646 THEN
            <<961>> ELSE <<c>> ELSE IF c = 120647 THEN <<962>> ELSE IF c =
            120648 THEN <<963>> ELSE IF c = 120649 THEN <<964>> ELSE <<c>>
            ELSE IF c < 120656 THEN IF c < 120653 THEN IF c = 120650 THEN
            <<965>> ELSE IF c = 120651 THEN <<966>> ELSE IF c = 120652 THEN
            <<967>> ELSE <<c>> ELSE IF c = 120653 THEN <<968>> ELSE IF c =
            120654 THEN <<969>> ELSE IF c = 120655 THEN <<8706>> ELSE <<c>>
            ELSE IF c < 120659 THEN IF c = 120656 THEN <<949>> ELSE IF c =
            120657 THEN <<952>> ELSE IF c = 120658 THEN <<954>> ELSE <<c>>
            ELSE IF c = 120659 THEN <<966>> ELSE IF c = 120660 THEN <<961>>
            ELSE IF c = 120661 THEN <<960>> ELSE <<c>> ELSE IF c < 120707 THEN
            IF c < 120684 THEN IF c < 120673 THEN IF c < 120667 THEN IF c <
            120664 THEN IF c = 120662 THEN <<913>> ELSE IF c = 120663 THEN
            <<914>> ELSE <<c>> ELSE IF c = 120664 THEN <<915>> ELSE IF c =
            120665 THEN <<916>> ELSE IF c = 120666 THEN <<917>> ELSE <<c>>
            ELSE IF c < 120670 THEN IF c = 120667 THEN <<918>> ELSE IF c =
            120668 THEN <<919>> ELSE IF c = 120669 THEN <<920>> ELSE <<c>>
            ELSE IF c = 120670 THEN <<921>> ELSE IF c = 120671 THEN <<922>>
            ELSE IF c = 120672 THEN <<923>> ELSE <<c>> ELSE IF c < 120678 THEN
            IF c < 120675 THEN IF c = 120673 THEN <<924>> ELSE IF c = 120674
            THEN <<925>> ELSE <<c>> ELSE IF c = 120675 THEN <<926>> ELSE IF c
            = 120676 THEN <<927>> ELSE IF c = 120677 THEN <<928>> ELSE <<c>>
            ELSE IF c < 120681 THEN IF c = 120678 THEN <<929>> ELSE IF c =
            120679 THEN <<920>> ELSE IF c = 120680 THEN <<931>> ELSE <<c>>
            ELSE IF c = 120681 THEN <<932>> ELSE IF c = 120682 THEN <<933>>
            ELSE IF c = 120683 THEN <<934>> ELSE <<c>> ELSE IF c < 120695 THEN
            IF c < 120689 THEN IF c < 120686 THEN IF c = 120684 THEN <<935>>
            ELSE IF c = 120685 THEN <<936>> ELSE <<c>> ELSE IF c = 120686 THEN
            <<937>> ELSE IF c = 120687 THEN <<8711>> ELSE IF c = 120688 THEN
            <<945>> ELSE <<c>> ELSE IF c < 120692 THEN IF c = 120689 THEN
            <<946>> ELSE IF c = 120690 THEN <<947>> ELSE IF c = 120691 THEN
            <<948>> ELSE <<c>> ELSE IF c = 120692 THEN <<949>> ELSE IF c =
            120693 THEN <<950>> ELSE IF c = 120694 THEN <<951>> ELSE <<c>>
            ELSE IF c < 120701 THEN IF c < 120698 THEN IF c = 120695 THEN
            <<952>> ELSE IF c = 120696 THEN <<953>> ELSE IF c = 120697 THEN
            <<954>> ELSE <<c>> ELSE IF c = 120698 THEN <<955>> ELSE IF c =
            120699 THEN <<956>> ELSE IF c = 120700 THEN <<957>> ELSE <<c>>
            ELSE IF c < 120704 THEN IF c = 120701 THEN <<958>> ELSE IF c =
            120702 THEN <<959>> ELSE IF c = 120703 THEN <<960>> ELSE <<c>>
            ELSE IF c = 120704 THEN <<961>> ELSE IF c = 120705 THEN <<962>>
            ELSE IF c = 120706 THEN <<963>> ELSE <<c>> ELSE IF c < 120730 THEN
            IF c < 120718 THEN IF c < 120712 THEN IF c < 120709 THEN IF c =
            120707 THEN <<964>> ELSE IF c = 120708 THEN <<965>> ELSE <<c>>
            ELSE IF c = 120709 THEN <<966>> ELSE IF c = 120710 THEN <<967>>
            ELSE IF c = 120711 THEN <<968>> ELSE <<c>> ELSE IF c < 120715 THEN
            IF c = 120712 THEN <<969>> ELSE IF c = 120713 THEN <<8706>> ELSE
            IF c = 120714 THEN <<949>> ELSE <<c>> ELSE IF c = 120715 THEN
            <<952>> ELSE IF c = 120716 THEN <<954>> ELSE IF c = 120717 THEN
            <<966>> ELSE <<c>> ELSE IF c < 120724 THEN IF c < 120721 THEN IF c
            = 120718 THEN <<961>> ELSE IF c = 120719 THEN <<960>> ELSE IF c =
            120720 THEN <<913>> ELSE <<c>> ELSE IF c = 120721 THEN <<914>>
            ELSE IF c = 120722 THEN <<915>> ELSE IF c = 120723 THEN <<916>>
            ELSE <<c>> ELSE IF c < 120727 THEN IF c = 120724 THEN <<917>> ELSE
            IF c = 120725 THEN <<918>> ELSE IF c = 120726 THEN <<919>> ELSE
            <<c>> ELSE IF c = 120727 THEN <<920>> ELSE IF c = 120728 THEN
            <<921>> ELSE IF c = 120729 THEN <<922>> ELSE <<c>> ELSE IF c <
            120741 THEN IF c < 120735 THEN IF c < 120732 THEN IF c = 120730
            THEN <<923>> ELSE IF c = 120731 THEN <<924>> ELSE <<c>> ELSE IF c
            = 120732 THEN <<925>> ELSE IF c = 120733 THEN <<926>> ELSE IF c =
            120734 THEN <<927>> ELSE <<c>> ELSE IF c < 120738 THEN IF c =
            120735 THEN <<928>> ELSE IF c = 120736 THEN <<929>> ELSE IF c =
            120737 THEN <<920>> ELSE <<c>> ELSE IF c = 120738 THEN <<931>>
            ELSE IF c = 120739 THEN <<932>> ELSE IF c = 120740 THEN <<933>>
            ELSE <<c>> ELSE IF c < 120747 THEN IF c < 120744 THEN IF c =
            120741 THEN <<934>> ELSE IF c = 120742 THEN <<935>> ELSE IF c =
            120743 THEN <<936>> ELSE <<c>> ELSE IF c = 120744 THEN <<937>>
            ELSE IF c = 120745 THEN <<8711>> ELSE IF c = 120746 THEN <<945>>
            ELSE <<c>> ELSE IF c < 120750 THEN IF c = 120747 THEN <<946>> ELSE
            IF c = 120748 THEN <<947>> ELSE IF c = 120749 THEN <<948>> ELSE
            <<c>> ELSE IF c = 120750 THEN <<949>> ELSE IF c = 120751 THEN
            <<950>> ELSE IF c = 120752 THEN <<951>> ELSE <<c>> ELSE IF c <
            126478 THEN IF c < 120800 THEN IF c < 120775 THEN IF c < 120764
            THEN IF c < 120758 THEN IF c < 120755 THEN IF c = 120753 THEN
            <<952>> ELSE IF c = 120754 THEN <<953>> ELSE <<c>> ELSE IF c =
            120755 THEN <<954>> ELSE IF c = 120756 THEN <<955>> ELSE IF c =
            120757 THEN <<956>> ELSE <<c>> ELSE IF c < 120761 THEN IF c =
            120758 THEN <<957>> ELSE IF c = 120759 THEN <<958>> ELSE IF c =
            120760 THEN <<959>> ELSE <<c>> ELSE IF c = 120761 THEN <<960>>
            ELSE IF c = 120762 THEN <<961>> ELSE IF c = 120763 THEN <<962>>
            ELSE <<c>> ELSE IF c < 120769 THEN IF c < 120766 THEN IF c =
            120764 THEN <<963>> ELSE IF c = 120765 THEN <<964>> ELSE <<c>>
            ELSE IF c = 120766 THEN <<965>> ELSE IF c = 120767 THEN <<966>>
            ELSE IF c = 120768 THEN <<967>> ELSE <<c>> ELSE IF c < 120772 THEN
            IF c = 120769 THEN <<968>> ELSE IF c = 120770 THEN <<969>> ELSE IF
            c = 120771 THEN <<8706>> ELSE <<c>> ELSE IF c = 120772 THEN
            <<949>> ELSE IF c = 120773 THEN <<952>> ELSE IF c = 120774 THEN
            <<954>> ELSE <<c>> ELSE IF c < 120788 THEN IF c < 120782 THEN IF c
            < 120777 THEN IF c = 120775 THEN <<966>> ELSE IF c = 120776 THEN
            <<961>> ELSE <<c>> ELSE IF c = 120777 THEN <<960>> ELSE IF c =
            120778 THEN <<988>> ELSE IF c = 120779 THEN <<989>> ELSE <<c>>
            ELSE IF c < 120785 THEN IF c = 120782 THEN <<48>> ELSE IF c =
            120783 THEN <<49>> ELSE IF c = 120784 THEN <<50>> ELSE <<c>> ELSE
            IF c = 120785 THEN <<51>> ELSE IF c = 120786 THEN <<52>> ELSE IF c
            = 120787 THEN <<53>> ELSE <<c>> ELSE IF c < 120794 THEN IF c <
            120791 THEN IF c = 120788 THEN <<54>> ELSE IF c = 120789 THEN
            <<55>> ELSE IF c = 120790 THEN <<56>> ELSE <<c>> ELSE IF c =
            120791 THEN <<57>> ELSE IF c = 120792 THEN <<48>> ELSE IF c =
            120793 THEN <<49>> ELSE <<c>> ELSE IF c < 120797 THEN IF c =
            120794 THEN <<50>> ELSE IF c = 120795 THEN <<51>> ELSE IF c =
            120796 THEN <<52>> ELSE <<c>> ELSE IF c = 120797 THEN <<53>> ELSE
            IF c = 120798 THEN <<54>> ELSE IF c = 120799 THEN <<55>> ELSE
            <<c>> ELSE IF c < 120822 THEN IF c < 120811 THEN IF c < 120805
            THEN IF c < 120802 THEN IF c = 120800 THEN <<56>> ELSE IF c =
            120801 THEN <<57>> ELSE <<c>> ELSE IF c = 120802 THEN <<48>> ELSE
            IF c = 120803 THEN <<49>> ELSE IF c = 120804 THEN <<50>> ELSE
            <<c>> ELSE IF c < 120808 THEN IF c = 120805 THEN <<51>> ELSE IF c
            = 120806 THEN <<52>> ELSE IF c = 120807 THEN <<53>> ELSE <<c>>
            ELSE IF c = 120808 THEN <<54>> ELSE IF c = 120809 THEN <<55>> ELSE
            IF c = 120810 THEN <<56>> ELSE <<c>> ELSE IF c < 120816 THEN IF c
            < 120813 THEN IF c = 120811 THEN <<57>> ELSE IF c = 120812 THEN
            <<48>> ELSE <<c>> ELSE IF c = 120813 THEN <<49>> ELSE IF c =
            120814 THEN <<50>> ELSE IF c = 120815 THEN <<51>> ELSE <<c>> ELSE
            IF c < 120819 THEN IF c = 120816 THEN <<52>> ELSE IF c = 120817
            THEN <<53>> ELSE IF c = 120818 THEN <<54>> ELSE <<c>> ELSE IF c =
            120819 THEN <<55>> ELSE IF c = 120820 THEN <<56>> ELSE IF c =
            120821 THEN <<57>> ELSE <<c>> ELSE IF c < 126465 THEN IF c <
            120827 THEN IF c < 120824 THEN IF c = 120822 THEN <<48>> ELSE IF c
            = 120823 THEN <<49>> ELSE <<c>> ELSE IF c = 120824 THEN <<50>>
            ELSE IF c = 120825 THEN <<51>> ELSE IF c = 120826 THEN <<52>> ELSE
            <<c>> ELSE IF c < 120830 THEN IF c = 120827 THEN <<53>> ELSE IF c
            = 120828 THEN <<54>> ELSE IF c = 120829 THEN <<55>> ELSE <<c>>
            ELSE IF c = 120830 THEN <<56>> ELSE IF c = 120831 THEN <<57>> ELSE
            IF c = 126464 THEN <<1575>> ELSE <<c>> ELSE IF c < 126472 THEN IF
            c < 126469 THEN IF c = 126465 THEN <<1576>> ELSE IF c = 126466
            THEN <<1580>> ELSE IF c = 126467 THEN <<1583>> ELSE <<c>> ELSE IF
            c = 126469 THEN <<1608>> ELSE IF c = 126470 THEN <<1586>> ELSE IF
            c = 126471 THEN <<1581>> ELSE <<c>> ELSE IF c < 126475 THEN IF c =
            126472 THEN <<1591>> ELSE IF c = 126473 THEN <<1610>> ELSE IF c =
            126474 THEN <<1603>> ELSE <<c>> ELSE IF c = 126475 THEN <<1604>>
            ELSE IF c = 126476 THEN <<1605>> ELSE IF c = 126477 THEN <<1606>>
            ELSE <<c>> ELSE IF c < 126545 THEN IF c < 126505 THEN IF c <
            126489 THEN IF c < 126483 THEN IF c < 126480 THEN IF c = 126478
            THEN <<1587>> ELSE IF c = 126479 THEN <<1593>> ELSE <<c>> ELSE IF
            c = 126480 THEN <<1601>> ELSE IF c = 126481 THEN <<1589>> ELSE IF
            c = 126482 THEN <<1602>> ELSE <<c>> ELSE IF c < 126486 THEN IF c =
            126483 THEN <<1585>> ELSE IF c = 126484 THEN <<1588>> ELSE IF c =
            126485 THEN <<1578>> ELSE <<c>> ELSE IF c = 126486 THEN <<1579>>
            ELSE IF c = 126487 THEN <<1582>> ELSE IF c = 126488 THEN <<1584>>
            ELSE <<c>> ELSE IF c < 126494 THEN IF c < 126491 THEN IF c =
            126489 THEN <<1590>> ELSE IF c = 126490 THEN <<1592>> ELSE <<c>>
            ELSE IF c = 126491 THEN <<1594>> ELSE IF c = 126492 THEN <<1646>>
            ELSE IF c = 126493 THEN <<1722>> ELSE <<c>> ELSE IF c < 126498
            THEN IF c = 126494 THEN <<1697>> ELSE IF c = 126495 THEN <<1647>>
            ELSE IF c = 126497 THEN <<1576>> ELSE <<c>> ELSE IF c = 126498
            THEN <<1580>> ELSE IF c = 126500 THEN <<1607>> ELSE IF c = 126503
            THEN <<1581>> ELSE <<c>> ELSE IF c < 126517 THEN IF c < 126510
            THEN IF c < 126507 THEN IF c = 126505 THEN <<1610>> ELSE IF c =
            126506 THEN <<1603>> ELSE <<c>> ELSE IF c = 126507 THEN <<1604>>
            ELSE IF c = 126508 THEN <<1605>> ELSE IF c = 126509 THEN <<1606>>
            ELSE <<c>> ELSE IF c < 126513 THEN IF c = 126510 THEN <<1587>>
            ELSE IF c = 126511 THEN <<1593>> ELSE IF c = 126512 THEN <<1601>>
            ELSE <<c>> ELSE IF c = 126513 THEN <<1589>> ELSE IF c = 126514
            THEN <<1602>> ELSE IF c = 126516 THEN <<1588>> ELSE <<c>> ELSE IF
            c < 126535 THEN IF c < 126521 THEN IF c = 126517 THEN <<1578>>
            ELSE IF c = 126518 THEN <<1579>> ELSE IF c = 126519 THEN <<1582>>
            ELSE <<c>> ELSE IF c = 126521 THEN <<1590>> ELSE IF c = 126523
            THEN <<1594>> ELSE IF c = 126530 THEN <<1580>> ELSE <<c>> ELSE IF
            c < 126541 THEN IF c = 126535 THEN <<1581>> ELSE IF c = 126537
            THEN <<1610>> ELSE IF c = 126539 THEN <<1604>> ELSE <<c>> ELSE IF
            c = 126541 THEN <<1606>> ELSE IF c = 126542 THEN <<1587>> ELSE IF
            c = 126543 THEN <<1593>> ELSE <<c>> ELSE IF c < 126581 THEN IF c <
            126567 THEN IF c < 126555 THEN IF c < 126548 THEN IF c = 126545
            THEN <<1589>> ELSE IF c = 126546 THEN <<1602>> ELSE <<c>> ELSE IF
            c = 126548 THEN <<1588>> ELSE IF c = 126551 THEN <<1582>> ELSE IF
            c = 126553 THEN <<1590>> ELSE <<c>> ELSE IF c < 126561 THEN IF c =
            126555 THEN <<1594>> ELSE IF c = 126557 THEN <<1722>> ELSE IF c =
            126559 THEN <<1647>> ELSE <<c>> ELSE IF c = 126561 THEN <<1576>>
            ELSE IF c = 126562 THEN <<1580>> ELSE IF c = 126564 THEN <<1607>>
            ELSE <<c>> ELSE IF c < 126574 THEN IF c < 126570 THEN IF c =
            126567 THEN <<1581>> ELSE IF c = 126568 THEN <<1591>> ELSE IF c =
            126569 THEN <<1610>> ELSE <<c>> ELSE IF c = 126570 THEN <<1603>>
            ELSE IF c = 126572 THEN <<1605>> ELSE IF c = 126573 THEN <<1606>>
            ELSE <<c>> ELSE IF c < 126577 THEN IF c = 126574 THEN <<1587>>
            ELSE IF c = 126575 THEN <<1593>> ELSE IF c = 126576 THEN <<1601>>
            ELSE <<c>> ELSE IF c = 126577 THEN <<1589>> ELSE IF c = 126578
            THEN <<1602>> ELSE IF c = 126580 THEN <<1588>> ELSE <<c>> ELSE IF
            c < 126595 THEN IF c < 126587 THEN IF c < 126583 THEN IF c =
            126581 THEN <<1578>> ELSE IF c = 126582 THEN <<1579>> ELSE <<c>>
            ELSE IF c = 126583 THEN <<1582>> ELSE IF c = 126585 THEN <<1590>>
            ELSE IF c = 126586 THEN <<1592>> ELSE <<c>> ELSE IF c < 126592
            THEN IF c = 126587 THEN <<1594>> ELSE IF c = 126588 THEN <<1646>>
            ELSE IF c = 126590 THEN <<1697>> ELSE <<c>> ELSE IF c = 126592
            THEN <<1575>> ELSE IF c = 126593 THEN <<1576>> ELSE IF c = 126594
            THEN <<1580>> ELSE <<c>> ELSE IF c < 126601 THEN IF c < 126598
            THEN IF c = 126595 THEN <<1583>> ELSE IF c = 126596 THEN <<1607>>
            ELSE IF c = 126597 THEN <<1608>> ELSE <<c>> ELSE IF c = 126598
            THEN <<1586>> ELSE IF c = 126599 THEN <<1581>> ELSE IF c = 126600
            THEN <<1591>> ELSE <<c>> ELSE IF c < 126605 THEN IF c = 126601
            THEN <<1610>> ELSE IF c = 126603 THEN <<1604>> ELSE IF c = 126604
            THEN <<1605>> ELSE <<c>> ELSE IF c = 126605 THEN <<1606>> ELSE IF
            c = 126606 THEN <<1587>> ELSE IF c = 126607 THEN <<1593>> ELSE
            <<c>> ELSE IF c < 194739 THEN IF c < 130040 THEN IF c < 127291
            THEN IF c < 127240 THEN IF c < 126637 THEN IF c < 126619 THEN IF c
            < 126613 THEN IF c < 126610 THEN IF c = 126608 THEN <<1601>> ELSE
            IF c = 126609 THEN <<1589>> ELSE <<c>> ELSE IF c = 126610 THEN
            <<1602>> ELSE IF c = 126611 THEN <<1585>> ELSE IF c = 126612 THEN
            <<1588>> ELSE <<c>> ELSE IF c < 126616 THEN IF c = 126613 THEN
            <<1578>> ELSE IF c = 126614 THEN <<1579>> ELSE IF c = 126615 THEN
            <<1582>> ELSE <<c>> ELSE IF c = 126616 THEN <<1584>> ELSE IF c =
            126617 THEN <<1590>> ELSE IF c = 126618 THEN <<1592>> ELSE <<c>>
            ELSE IF c < 126630 THEN IF c < 126626 THEN IF c = 126619 THEN
            <<1594>> ELSE IF c = 126625 THEN <<1576>> ELSE <<c>> ELSE IF c =
            126626 THEN <<1580>> ELSE IF c = 126627 THEN <<1583>> ELSE IF c =
            126629 THEN <<1608>> ELSE <<c>> ELSE IF c < 126633 THEN IF c =
            126630 THEN <<1586>> ELSE IF c = 126631 THEN <<1581>> ELSE IF c =
            126632 THEN <<1591>> ELSE <<c>> ELSE IF c = 126633 THEN <<1610>>
            ELSE IF c = 126635 THEN <<1604>> ELSE IF c = 126636 THEN <<1605>>
            ELSE <<c>> ELSE IF c < 126648 THEN IF c < 126642 THEN IF c <
            126639 THEN IF c = 126637 THEN <<1606>> ELSE IF c = 126638 THEN
            <<1587>> ELSE <<c>> ELSE IF c = 126639 THEN <<1593>> ELSE IF c =
            126640 THEN <<1601>> ELSE IF c = 126641 THEN <<1589>> ELSE <<c>>
            ELSE IF c < 126645 THEN IF c = 126642 THEN <<1602>> ELSE IF c =
            126643 THEN <<1585>> ELSE IF c = 126644 THEN <<1588>> ELSE <<c>>
            ELSE IF c = 126645 THEN <<1578>> ELSE IF c = 126646 THEN <<1579>>
            ELSE IF c = 126647 THEN <<1582>> ELSE <<c>> ELSE IF c < 127234
            THEN IF c < 126651 THEN IF c = 126648 THEN <<1584>> ELSE IF c =
            126649 THEN <<1590>> ELSE IF c = 126650 THEN <<1592>> ELSE <<c>>
            ELSE IF c = 126651 THEN <<1594>> ELSE IF c = 127232 THEN <<48,46>>
            ELSE IF c = 127233 THEN <<48,44>> ELSE <<c>> ELSE IF c < 127237
            THEN IF c = 127234 THEN <<49,44>> ELSE IF c = 127235 THEN
            <<50,44>> ELSE IF c = 127236 THEN <<51,44>> ELSE <<c>> ELSE IF c =
            127237 THEN <<52,44>> ELSE IF c = 127238 THEN <<53,44>> ELSE IF c
            = 127239 THEN <<54,44>> ELSE <<c>> ELSE IF c < 127267 THEN IF c <
            127256 THEN IF c < 127250 THEN IF c < 127242 THEN IF c = 127240
            THEN <<55,44>> ELSE IF c = 127241 THEN <<56,44>> ELSE <<c>> ELSE
            IF c = 127242 THEN <<57,44>> ELSE IF c = 127248 THEN <<40,65,41>>
            ELSE IF c = 127249 THEN <<40,66,41>> ELSE <<c>> ELSE IF c < 127253
            THEN IF c = 127250 THEN <<40,67,41>> ELSE IF c = 127251 THEN
            <<40,68,41>> ELSE IF c = 127252 THEN <<40,69,41>> ELSE <<c>> ELSE
            IF c = 127253 THEN <<40,70,41>> ELSE IF c = 127254 THEN
            <<40,71,41>> ELSE IF c = 127255 THEN <<40,72,41>> ELSE <<c>> ELSE
            IF c < 127261 THEN IF c < 127258 THEN IF c = 127256 THEN
            <<40,73,41>> ELSE IF c = 127257 THEN <<40,74,41>> ELSE <<c>> ELSE
            IF c = 127258 THEN <<40,75,41>> ELSE IF c = 127259 THEN
            <<40,76,41>> ELSE IF c = 127260 THEN <<40,77,41>> ELSE <<c>> ELSE
            IF c < 127264 THEN IF c = 127261 THEN <<40,78,41>> ELSE IF c =
            127262 THEN <<40,79,41>> ELSE IF c = 127263 THEN <<40,80,41>> ELSE
            <<c>> ELSE IF c = 127264 THEN <<40,81,41>> ELSE IF c = 127265 THEN
            <<40,82,41>> ELSE IF c = 127266 THEN <<40,83,41>> ELSE <<c>> ELSE
            IF c < 127278 THEN IF c < 127272 THEN IF c < 127269 THEN IF c =
            127267 THEN <<40,84,41>> ELSE IF c = 127268 THEN <<40,85,41>> ELSE
            <<c>> ELSE IF c = 127269 THEN <<40,86,41>> ELSE IF c = 127270 THEN
            <<40,87,41>> ELSE IF c = 127271 THEN <<40,88,41>> ELSE <<c>> ELSE
            IF c < 127275 THEN IF c = 127272 THEN <<40,89,41>> ELSE IF c =
            127273 THEN <<40,90,41>> ELSE IF c = 127274 THEN
            <<12308,83,12309>> ELSE <<c>> ELSE IF c = 127275 THEN <<67>> ELSE
            IF c = 127276 THEN <<82>> ELSE IF c = 127277 THEN <<67,68>> ELSE
            <<c>> ELSE IF c < 127285 THEN IF c < 127282 THEN IF c = 127278
            THEN <<87,90>> ELSE IF c = 127280 THEN <<65>> ELSE IF c = 127281
            THEN <<66>> ELSE <<c>> ELSE IF c = 127282 THEN <<67>> ELSE IF c =
            127283 THEN <<68>> ELSE IF c = 127284 THEN <<69>> ELSE <<c>> ELSE
            IF c < 127288 THEN IF c = 127285 THEN <<70>> ELSE IF c = 127286
            THEN <<71>> ELSE IF c = 127287 THEN <<72>> ELSE <<c>> ELSE IF c =
            127288 THEN <<73>> ELSE IF c = 127289 THEN <<74>> ELSE IF c =
            127290 THEN <<75>> ELSE <<c>> ELSE IF c < 127521 THEN IF c <
            127339 THEN IF c < 127302 THEN IF c < 127296 THEN IF c < 127293
            THEN IF c = 127291 THEN <<76>> ELSE IF c = 127292 THEN <<77>> ELSE
            <<c>> ELSE IF c = 127293 THEN <<78>> ELSE IF c = 127294 THEN
            <<79>> ELSE IF c = 127295 THEN <<80>> ELSE <<c>> ELSE IF c <
            127299 THEN IF c = 127296 THEN <<81>> ELSE IF c = 127297 THEN
            <<82>> ELSE IF c = 127298 THEN <<83>> ELSE <<c>> ELSE IF c =
            127299 THEN <<84>> ELSE IF c = 127300 THEN <<85>> ELSE IF c =
            127301 THEN <<86>> ELSE <<c>> ELSE IF c < 127307 THEN IF c <
            127304 THEN IF c = 127302 THEN <<87>> ELSE IF c = 127303 THEN
            <<88>> ELSE <<c>> ELSE IF c = 127304 THEN <<89>> ELSE IF c =
            127305 THEN <<90>> ELSE IF c = 127306 THEN <<72,86>> ELSE <<c>>
            ELSE IF c < 127310 THEN IF c = 127307 THEN <<77,86>> ELSE IF c =
            127308 THEN <<83,68>> ELSE IF c = 127309 THEN <<83,83>> ELSE <<c>>
            ELSE IF c = 127310 THEN <<80,80,86>> ELSE IF c = 127311 THEN
            <<87,67>> ELSE IF c = 127338 THEN <<77,67>> ELSE <<c>> ELSE IF c <
            127509 THEN IF c < 127490 THEN IF c < 127376 THEN IF c = 127339
            THEN <<77,68>> ELSE IF c = 127340 THEN <<77,82>> ELSE <<c>> ELSE
            IF c = 127376 THEN <<68,74>> ELSE IF c = 127488 THEN
            <<12411,12363>> ELSE IF c = 127489 THEN <<12467,12467>> ELSE <<c>>
            ELSE IF c < 127506 THEN IF c = 127490 THEN <<12469>> ELSE IF c =
            127504 THEN <<25163>> ELSE IF c = 127505 THEN <<23383>> ELSE <<c>>
            ELSE IF c = 127506 THEN <<21452>> ELSE IF c = 127507 THEN
            <<12486,12441>> ELSE IF c = 127508 THEN <<20108>> ELSE <<c>> ELSE
            IF c < 127515 THEN IF c < 127512 THEN IF c = 127509 THEN <<22810>>
            ELSE IF c = 127510 THEN <<35299>> ELSE IF c = 127511 THEN
            <<22825>> ELSE <<c>> ELSE IF c = 127512 THEN <<20132>> ELSE IF c =
            127513 THEN <<26144>> ELSE IF c = 127514 THEN <<28961>> ELSE <<c>>
            ELSE IF c < 127518 THEN IF c = 127515 THEN <<26009>> ELSE IF c =
            127516 THEN <<21069>> ELSE IF c = 127517 THEN <<24460>> ELSE <<c>>
            ELSE IF c = 127518 THEN <<20877>> ELSE IF c = 127519 THEN
            <<26032>> ELSE IF c = 127520 THEN <<21021>> ELSE <<c>> ELSE IF c <
            127544 THEN IF c < 127532 THEN IF c < 127526 THEN IF c < 127523
            THEN IF c = 127521 THEN <<32066>> ELSE IF c = 127522 THEN
            <<29983>> ELSE <<c>> ELSE IF c = 127523 THEN <<36009>> ELSE IF c =
            127524 THEN <<22768>> ELSE IF c = 127525 THEN <<21561>> ELSE <<c>>
            ELSE IF c < 127529 THEN IF c = 127526 THEN <<28436>> ELSE IF c =
            127527 THEN <<25237>> ELSE IF c = 127528 THEN <<25429>> ELSE <<c>>
            ELSE IF c = 127529 THEN <<19968>> ELSE IF c = 127530 THEN
            <<19977>> ELSE IF c = 127531 THEN <<36938>> ELSE <<c>> ELSE IF c <
            127538 THEN IF c < 127535 THEN IF c = 127532 THEN <<24038>> ELSE
            IF c = 127533 THEN <<20013>> ELSE IF c = 127534 THEN <<21491>>
            ELSE <<c>> ELSE IF c = 127535 THEN <<25351>> ELSE IF c = 127536
            THEN <<36208>> ELSE IF c = 127537 THEN <<25171>> ELSE <<c>> ELSE
            IF c < 127541 THEN IF c = 127538 THEN <<31105>> ELSE IF c = 127539
            THEN <<31354>> ELSE IF c = 127540 THEN <<21512>> ELSE <<c>> ELSE
            IF c = 127541 THEN <<28288>> ELSE IF c = 127542 THEN <<26377>>
            ELSE IF c = 127543 THEN <<26376>> ELSE <<c>> ELSE IF c < 127559
            THEN IF c < 127553 THEN IF c < 127546 THEN IF c = 127544 THEN
            <<30003>> ELSE IF c = 127545 THEN <<21106>> ELSE <<c>> ELSE IF c =
            127546 THEN <<21942>> ELSE IF c = 127547 THEN <<37197>> ELSE IF c
            = 127552 THEN <<12308,26412,12309>> ELSE <<c>> ELSE IF c < 127556
            THEN IF c = 127553 THEN <<12308,19977,12309>> ELSE IF c = 127554
            THEN <<12308,20108,12309>> ELSE IF c = 127555 THEN
            <<12308,23433,12309>> ELSE <<c>> ELSE IF c = 127556 THEN
            <<12308,28857,12309>> ELSE IF c = 127557 THEN
            <<12308,25171,12309>> ELSE IF c = 127558 THEN
            <<12308,30423,12309>> ELSE <<c>> ELSE IF c < 130034 THEN IF c <
            127569 THEN IF c = 127559 THEN <<12308,21213,12309>> ELSE IF c =
            127560 THEN <<12308,25943,12309>> ELSE IF c = 127568 THEN
            <<24471>> ELSE <<c>> ELSE IF c = 127569 THEN <<21487>> ELSE IF c =
            130032 THEN <<48>> ELSE IF c = 130033 THEN <<49>> ELSE <<c>> ELSE
            IF c < 130037 THEN IF c = 130034 THEN <<50>> ELSE IF c = 130035
            THEN <<51>> ELSE IF c = 130036 THEN <<52>> ELSE <<c>> ELSE IF c =
            130037 THEN <<53>> ELSE IF c = 130038 THEN <<54>> ELSE IF c =
            130039 THEN <<55>> ELSE <<c>> ELSE IF c < 194648 THEN IF c <
            194603 THEN IF c < 194580 THEN IF c < 194569 THEN IF c < 194563
            THEN IF c < 194560 THEN IF c = 130040 THEN <<56>> ELSE IF c =
            130041 THEN <<57>> ELSE <<c>> ELSE IF c = 194560 THEN <<20029>>
            ELSE IF c = 194561 THEN <<20024>> ELSE IF c = 194562 THEN
            <<20033>> ELSE <<c>> ELSE IF c < 194566 THEN IF c = 194563 THEN
            <<131362>> ELSE IF c = 194564 THEN <<20320>> ELSE IF c = 194565
            THEN <<20398>> ELSE <<c>> ELSE IF c = 194566 THEN <<20411>> ELSE
            IF c = 194567 THEN <<20482>> ELSE IF c = 194568 THEN <<20602>>
            ELSE <<c>> ELSE IF c < 194574 THEN IF c < 194571 THEN IF c =
            194569 THEN <<20633>> ELSE IF c = 194570 THEN <<20711>> ELSE <<c>>
            ELSE IF c = 194571 THEN <<20687>> ELSE IF c = 194572 THEN
            <<13470>> ELSE IF c = 194573 THEN <<132666>> ELSE <<c>> ELSE IF c
            < 194577 THEN IF c = 194574 THEN <<20813>> ELSE IF c = 194575 THEN
            <<20820>> ELSE IF c = 194576 THEN <<20836>> ELSE <<c>> ELSE IF c =
            194577 THEN <<20855>> ELSE IF c = 194578 THEN <<132380>> ELSE IF c
            = 194579 THEN <<13497>> ELSE <<c>> ELSE IF c < 194591 THEN IF c <
            194585 THEN IF c < 194582 THEN IF c = 194580 THEN <<20839>> ELSE
            IF c = 194581 THEN <<20877>> ELSE <<c>> ELSE IF c = 194582 THEN
            <<132427>> ELSE IF c = 194583 THEN <<20887>> ELSE IF c = 194584
            THEN <<20900>> ELSE <<c>> ELSE IF c < 194588 THEN IF c = 194585
            THEN <<20172>> ELSE IF c = 194586 THEN <<20908>> ELSE IF c =
            194587 THEN <<20917>> ELSE <<c>> ELSE IF c = 194588 THEN
            <<168415>> ELSE IF c = 194589 THEN <<20981>> ELSE IF c = 194590
            THEN <<20995>> ELSE <<c>> ELSE IF c < 194597 THEN IF c < 194594
            THEN IF c = 194591 THEN <<13535>> ELSE IF c = 194592 THEN
            <<21051>> ELSE IF c = 194593 THEN <<21062>> ELSE <<c>> ELSE IF c =
            194594 THEN <<21106>> ELSE IF c = 194595 THEN <<21111>> ELSE IF c
            = 194596 THEN <<13589>> ELSE <<c>> ELSE IF c < 194600 THEN IF c =
            194597 THEN <<21191>> ELSE IF c = 194598 THEN <<21193>> ELSE IF c
            = 194599 THEN <<21220>> ELSE <<c>> ELSE IF c = 194600 THEN
            <<21242>> ELSE IF c = 194601 THEN <<21253>> ELSE IF c = 194602
            THEN <<21254>> ELSE <<c>> ELSE IF c < 194625 THEN IF c < 194614
            THEN IF c < 194608 THEN IF c < 194605 THEN IF c = 194603 THEN
            <<21271>> ELSE IF c = 194604 THEN <<21321>> ELSE <<c>> ELSE IF c =
            194605 THEN <<21329>> ELSE IF c = 194606 THEN <<21338>> ELSE IF c
            = 194607 THEN <<21363>> ELSE <<c>> ELSE IF c < 194611 THEN IF c =
            194608 THEN <<21373>> ELSE IF c = 194609 THEN <<21375>> ELSE IF c
            = 194610 THEN <<21375>> ELSE <<c>> ELSE IF c = 194611 THEN
            <<21375>> ELSE IF c = 194612 THEN <<133676>> ELSE IF c = 194613
            THEN <<28784>> ELSE <<c>> ELSE IF c < 194619 THEN IF c < 194616
            THEN IF c = 194614 THEN <<21450>> ELSE IF c = 194615 THEN
            <<21471>> ELSE <<c>> ELSE IF c = 194616 THEN <<133987>> ELSE IF c
            = 194617 THEN <<21483>> ELSE IF c = 194618 THEN <<21489>> ELSE
            <<c>> ELSE IF c < 194622 THEN IF c = 194619 THEN <<21510>> ELSE IF
            c = 194620 THEN <<21662>> ELSE IF c = 194621 THEN <<21560>> ELSE
            <<c>> ELSE IF c = 194622 THEN <<21576>> ELSE IF c = 194623 THEN
            <<21608>> ELSE IF c = 194624 THEN <<21666>> ELSE <<c>> ELSE IF c <
            194636 THEN IF c < 194630 THEN IF c < 194627 THEN IF c = 194625
            THEN <<21750>> ELSE IF c = 194626 THEN <<21776>> ELSE <<c>> ELSE
            IF c = 194627 THEN <<21843>> ELSE IF c = 194628 THEN <<21859>>
            ELSE IF c = 194629 THEN <<21892>> ELSE <<c>> ELSE IF c < 194633
            THEN IF c = 194630 THEN <<21892>> ELSE IF c = 194631 THEN
            <<21913>> ELSE IF c = 194632 THEN <<21931>> ELSE <<c>> ELSE IF c =
            194633 THEN <<21939>> ELSE IF c = 194634 THEN <<21954>> ELSE IF c
            = 194635 THEN <<22294>> ELSE <<c>> ELSE IF c < 194642 THEN IF c <
            194639 THEN IF c = 194636 THEN <<22022>> ELSE IF c = 194637 THEN
            <<22295>> ELSE IF c = 194638 THEN <<22097>> ELSE <<c>> ELSE IF c =
            194639 THEN <<22132>> ELSE IF c = 194640 THEN <<20999>> ELSE IF c
            = 194641 THEN <<22766>> ELSE <<c>> ELSE IF c < 194645 THEN IF c =
            194642 THEN <<22478>> ELSE IF c = 194643 THEN <<22516>> ELSE IF c
            = 194644 THEN <<22541>> ELSE <<c>> ELSE IF c = 194645 THEN
            <<22411>> ELSE IF c = 194646 THEN <<22578>> ELSE IF c = 194647
            THEN <<22577>> ELSE <<c>> ELSE IF c < 194693 THEN IF c < 194670
            THEN IF c < 194659 THEN IF c < 194653 THEN IF c < 194650 THEN IF c
            = 194648 THEN <<22700>> ELSE IF c = 194649 THEN <<136420>> ELSE
            <<c>> ELSE IF c = 194650 THEN <<22770>> ELSE IF c = 194651 THEN
            <<22775>> ELSE IF c = 194652 THEN <<22790>> ELSE <<c>> ELSE IF c <
            194656 THEN IF c = 194653 THEN <<22810>> ELSE IF c = 194654 THEN
            <<22818>> ELSE IF c = 194655 THEN <<22882>> ELSE <<c>> ELSE IF c =
            194656 THEN <<136872>> ELSE IF c = 194657 THEN <<136938>> ELSE IF
            c = 194658 THEN <<23020>> ELSE <<c>> ELSE IF c < 194664 THEN IF c
            < 194661 THEN IF c = 194659 THEN <<23067>> ELSE IF c = 194660 THEN
            <<23079>> ELSE <<c>> ELSE IF c = 194661 THEN <<23000>> ELSE IF c =
            194662 THEN <<23142>> ELSE IF c = 194663 THEN <<14062>> ELSE <<c>>
            ELSE IF c < 194667 THEN IF c = 194664 THEN <<14076>> ELSE IF c =
            194665 THEN <<23304>> ELSE IF c = 194666 THEN <<23358>> ELSE <<c>>
            ELSE IF c = 194667 THEN <<23358>> ELSE IF c = 194668 THEN
            <<137672>> ELSE IF c = 194669 THEN <<23491>> ELSE <<c>> ELSE IF c
            < 194681 THEN IF c < 194675 THEN IF c < 194672 THEN IF c = 194670
            THEN <<23512>> ELSE IF c = 194671 THEN <<23527>> ELSE <<c>> ELSE
            IF c = 194672 THEN <<23539>> ELSE IF c = 194673 THEN <<138008>>
            ELSE IF c = 194674 THEN <<23551>> ELSE <<c>> ELSE IF c < 194678
            THEN IF c = 194675 THEN <<23558>> ELSE IF c = 194676 THEN
            <<24403>> ELSE IF c = 194677 THEN <<23586>> ELSE <<c>> ELSE IF c =
            194678 THEN <<14209>> ELSE IF c = 194679 THEN <<23648>> ELSE IF c
            = 194680 THEN <<23662>> ELSE <<c>> ELSE IF c < 194687 THEN IF c <
            194684 THEN IF c = 194681 THEN <<23744>> ELSE IF c = 194682 THEN
            <<23693>> ELSE IF c = 194683 THEN <<138724>> ELSE <<c>> ELSE IF c
            = 194684 THEN <<23875>> ELSE IF c = 194685 THEN <<138726>> ELSE IF
            c = 194686 THEN <<23918>> ELSE <<c>> ELSE IF c < 194690 THEN IF c
            = 194687 THEN <<23915>> ELSE IF c = 194688 THEN <<23932>> ELSE IF
            c = 194689 THEN <<24033>> ELSE <<c>> ELSE IF c = 194690 THEN
            <<24034>> ELSE IF c = 194691 THEN <<14383>> ELSE IF c = 194692
            THEN <<24061>> ELSE <<c>> ELSE IF c < 194716 THEN IF c < 194704
            THEN IF c < 194698 THEN IF c < 194695 THEN IF c = 194693 THEN
            <<24104>> ELSE IF c = 194694 THEN <<24125>> ELSE <<c>> ELSE IF c =
            194695 THEN <<24169>> ELSE IF c = 194696 THEN <<14434>> ELSE IF c
            = 194697 THEN <<139651>> ELSE <<c>> ELSE IF c < 194701 THEN IF c =
            194698 THEN <<14460>> ELSE IF c = 194699 THEN <<24240>> ELSE IF c
            = 194700 THEN <<24243>> ELSE <<c>> ELSE IF c = 194701 THEN
            <<24246>> ELSE IF c = 194702 THEN <<24266>> ELSE IF c = 194703
            THEN <<172946>> ELSE <<c>> ELSE IF c < 194710 THEN IF c < 194707
            THEN IF c = 194704 THEN <<24318>> ELSE IF c = 194705 THEN
            <<140081>> ELSE IF c = 194706 THEN <<140081>> ELSE <<c>> ELSE IF c
            = 194707 THEN <<33281>> ELSE IF c = 194708 THEN <<24354>> ELSE IF
            c = 194709 THEN <<24354>> ELSE <<c>> ELSE IF c < 194713 THEN IF c
            = 194710 THEN <<14535>> ELSE IF c = 194711 THEN <<144056>> ELSE IF
            c = 194712 THEN <<156122>> ELSE <<c>> ELSE IF c = 194713 THEN
            <<24418>> ELSE IF c = 194714 THEN <<24427>> ELSE IF c = 194715
            THEN <<14563>> ELSE <<c>> ELSE IF c < 194727 THEN IF c < 194721
            THEN IF c < 194718 THEN IF c = 194716 THEN <<24474>> ELSE IF c =
            194717 THEN <<24525>> ELSE <<c>> ELSE IF c = 194718 THEN <<24535>>
            ELSE IF c = 194719 THEN <<24569>> ELSE IF c = 194720 THEN
            <<24705>> ELSE <<c>> ELSE IF c < 194724 THEN IF c = 194721 THEN
            <<14650>> ELSE IF c = 194722 THEN <<14620>> ELSE IF c = 194723
            THEN <<24724>> ELSE <<c>> ELSE IF c = 194724 THEN <<141012>> ELSE
            IF c = 194725 THEN <<24775>> ELSE IF c = 194726 THEN <<24904>>
            ELSE <<c>> ELSE IF c < 194733 THEN IF c < 194730 THEN IF c =
            194727 THEN <<24908>> ELSE IF c = 194728 THEN <<24910>> ELSE IF c
            = 194729 THEN <<24908>> ELSE <<c>> ELSE IF c = 194730 THEN
            <<24954>> ELSE IF c = 194731 THEN <<24974>> ELSE IF c = 194732
            THEN <<25010>> ELSE <<c>> ELSE IF c < 194736 THEN IF c = 194733
            THEN <<24996>> ELSE IF c = 194734 THEN <<25007>> ELSE IF c =
            194735 THEN <<25054>> ELSE <<c>> ELSE IF c = 194736 THEN <<25074>>
            ELSE IF c = 194737 THEN <<25078>> ELSE IF c = 194738 THEN
            <<25104>> ELSE <<c>> ELSE IF c < 194920 THEN IF c < 194829 THEN IF
            c < 194784 THEN IF c < 194761 THEN IF c < 194750 THEN IF c <
            194744 THEN IF c < 194741 THEN IF c = 194739 THEN <<25115>> ELSE
            IF c = 194740 THEN <<25181>> ELSE <<c>> ELSE IF c = 194741 THEN
            <<25265>> ELSE IF c = 194742 THEN <<25300>> ELSE IF c = 194743
            THEN <<25424>> ELSE <<c>> ELSE IF c < 194747 THEN IF c = 194744
            THEN <<142092>> ELSE IF c = 194745 THEN <<25405>> ELSE IF c =
            194746 THEN <<25340>> ELSE <<c>> ELSE IF c = 194747 THEN <<25448>>
            ELSE IF c = 194748 THEN <<25475>> ELSE IF c = 194749 THEN
            <<25572>> ELSE <<c>> ELSE IF c < 194755 THEN IF c < 194752 THEN IF
            c = 194750 THEN <<142321>> ELSE IF c = 194751 THEN <<25634>> ELSE
            <<c>> ELSE IF c = 194752 THEN <<25541>> ELSE IF c = 194753 THEN
            <<25513>> ELSE IF c = 194754 THEN <<14894>> ELSE <<c>> ELSE IF c <
            194758 THEN IF c = 194755 THEN <<25705>> ELSE IF c = 194756 THEN
            <<25726>> ELSE IF c = 194757 THEN <<25757>> ELSE <<c>> ELSE IF c =
            194758 THEN <<25719>> ELSE IF c = 194759 THEN <<14956>> ELSE IF c
            = 194760 THEN <<25935>> ELSE <<c>> ELSE IF c < 194772 THEN IF c <
            194766 THEN IF c < 194763 THEN IF c = 194761 THEN <<25964>> ELSE
            IF c = 194762 THEN <<143370>> ELSE <<c>> ELSE IF c = 194763 THEN
            <<26083>> ELSE IF c = 194764 THEN <<26360>> ELSE IF c = 194765
            THEN <<26185>> ELSE <<c>> ELSE IF c < 194769 THEN IF c = 194766
            THEN <<15129>> ELSE IF c = 194767 THEN <<26257>> ELSE IF c =
            194768 THEN <<15112>> ELSE <<c>> ELSE IF c = 194769 THEN <<15076>>
            ELSE IF c = 194770 THEN <<20882>> ELSE IF c = 194771 THEN
            <<20885>> ELSE <<c>> ELSE IF c < 194778 THEN IF c < 194775 THEN IF
            c = 194772 THEN <<26368>> ELSE IF c = 194773 THEN <<26268>> ELSE
            IF c = 194774 THEN <<32941>> ELSE <<c>> ELSE IF c = 194775 THEN
            <<17369>> ELSE IF c = 194776 THEN <<26391>> ELSE IF c = 194777
            THEN <<26395>> ELSE <<c>> ELSE IF c < 194781 THEN IF c = 194778
            THEN <<26401>> ELSE IF c = 194779 THEN <<26462>> ELSE IF c =
            194780 THEN <<26451>> ELSE <<c>> ELSE IF c = 194781 THEN
            <<144323>> ELSE IF c = 194782 THEN <<15177>> ELSE IF c = 194783
            THEN <<26618>> ELSE <<c>> ELSE IF c < 194806 THEN IF c < 194795
            THEN IF c < 194789 THEN IF c < 194786 THEN IF c = 194784 THEN
            <<26501>> ELSE IF c = 194785 THEN <<26706>> ELSE <<c>> ELSE IF c =
            194786 THEN <<26757>> ELSE IF c = 194787 THEN <<144493>> ELSE IF c
            = 194788 THEN <<26766>> ELSE <<c>> ELSE IF c < 194792 THEN IF c =
            194789 THEN <<26655>> ELSE IF c = 194790 THEN <<26900>> ELSE IF c
            = 194791 THEN <<15261>> ELSE <<c>> ELSE IF c = 194792 THEN
            <<26946>> ELSE IF c = 194793 THEN <<27043>> ELSE IF c = 194794
            THEN <<27114>> ELSE <<c>> ELSE IF c < 194800 THEN IF c < 194797
            THEN IF c = 194795 THEN <<27304>> ELSE IF c = 194796 THEN
            <<145059>> ELSE <<c>> ELSE IF c = 194797 THEN <<27355>> ELSE IF c
            = 194798 THEN <<15384>> ELSE IF c = 194799 THEN <<27425>> ELSE
            <<c>> ELSE IF c < 194803 THEN IF c = 194800 THEN <<145575>> ELSE
            IF c = 194801 THEN <<27476>> ELSE IF c = 194802 THEN <<15438>>
            ELSE <<c>> ELSE IF c = 194803 THEN <<27506>> ELSE IF c = 194804
            THEN <<27551>> ELSE IF c = 194805 THEN <<27578>> ELSE <<c>> ELSE
            IF c < 194817 THEN IF c < 194811 THEN IF c < 194808 THEN IF c =
            194806 THEN <<27579>> ELSE IF c = 194807 THEN <<146061>> ELSE
            <<c>> ELSE IF c = 194808 THEN <<138507>> ELSE IF c = 194809 THEN
            <<146170>> ELSE IF c = 194810 THEN <<27726>> ELSE <<c>> ELSE IF c
            < 194814 THEN IF c = 194811 THEN <<146620>> ELSE IF c = 194812
            THEN <<27839>> ELSE IF c = 194813 THEN <<27853>> ELSE <<c>> ELSE
            IF c = 194814 THEN <<27751>> ELSE IF c = 194815 THEN <<27926>>
            ELSE IF c = 194816 THEN <<27966>> ELSE <<c>> ELSE IF c < 194823
            THEN IF c < 194820 THEN IF c = 194817 THEN <<28023>> ELSE IF c =
            194818 THEN <<27969>> ELSE IF c = 194819 THEN <<28009>> ELSE <<c>>
            ELSE IF c = 194820 THEN <<28024>> ELSE IF c = 194821 THEN
            <<28037>> ELSE IF c = 194822 THEN <<146718>> ELSE <<c>> ELSE IF c
            < 194826 THEN IF c = 194823 THEN <<27956>> ELSE IF c = 194824 THEN
            <<28207>> ELSE IF c = 194825 THEN <<28270>> ELSE <<c>> ELSE IF c =
            194826 THEN <<15667>> ELSE IF c = 194827 THEN <<28363>> ELSE IF c
            = 194828 THEN <<28359>> ELSE <<c>> ELSE IF c < 194874 THEN IF c <
            194851 THEN IF c < 194840 THEN IF c < 194834 THEN IF c < 194831
            THEN IF c = 194829 THEN <<147153>> ELSE IF c = 194830 THEN
            <<28153>> ELSE <<c>> ELSE IF c = 194831 THEN <<28526>> ELSE IF c =
            194832 THEN <<147294>> ELSE IF c = 194833 THEN <<147342>> ELSE
            <<c>> ELSE IF c < 194837 THEN IF c = 194834 THEN <<28614>> ELSE IF
            c = 194835 THEN <<28729>> ELSE IF c = 194836 THEN <<28702>> ELSE
            <<c>> ELSE IF c = 194837 THEN <<28699>> ELSE IF c = 194838 THEN
            <<15766>> ELSE IF c = 194839 THEN <<28746>> ELSE <<c>> ELSE IF c <
            194845 THEN IF c < 194842 THEN IF c = 194840 THEN <<28797>> ELSE
            IF c = 194841 THEN <<28791>> ELSE <<c>> ELSE IF c = 194842 THEN
            <<28845>> ELSE IF c = 194843 THEN <<132389>> ELSE IF c = 194844
            THEN <<28997>> ELSE <<c>> ELSE IF c < 194848 THEN IF c = 194845
            THEN <<148067>> ELSE IF c = 194846 THEN <<29084>> ELSE IF c =
            194847 THEN <<148395>> ELSE <<c>> ELSE IF c = 194848 THEN
            <<29224>> ELSE IF c = 194849 THEN <<29237>> ELSE IF c = 194850
            THEN <<29264>> ELSE <<c>> ELSE IF c < 194862 THEN IF c < 194856
            THEN IF c < 194853 THEN IF c = 194851 THEN <<149000>> ELSE IF c =
            194852 THEN <<29312>> ELSE <<c>> ELSE IF c = 194853 THEN <<29333>>
            ELSE IF c = 194854 THEN <<149301>> ELSE IF c = 194855 THEN
            <<149524>> ELSE <<c>> ELSE IF c < 194859 THEN IF c = 194856 THEN
            <<29562>> ELSE IF c = 194857 THEN <<29579>> ELSE IF c = 194858
            THEN <<16044>> ELSE <<c>> ELSE IF c = 194859 THEN <<29605>> ELSE
            IF c = 194860 THEN <<16056>> ELSE IF c = 194861 THEN <<16056>>
            ELSE <<c>> ELSE IF c < 194868 THEN IF c < 194865 THEN IF c =
            194862 THEN <<29767>> ELSE IF c = 194863 THEN <<29788>> ELSE IF c
            = 194864 THEN <<29809>> ELSE <<c>> ELSE IF c = 194865 THEN
            <<29829>> ELSE IF c = 194866 THEN <<29898>> ELSE IF c = 194867
            THEN <<16155>> ELSE <<c>> ELSE IF c < 194871 THEN IF c = 194868
            THEN <<29988>> ELSE IF c = 194869 THEN <<150582>> ELSE IF c =
            194870 THEN <<30014>> ELSE <<c>> ELSE IF c = 194871 THEN
            <<150674>> ELSE IF c = 194872 THEN <<30064>> ELSE IF c = 194873
            THEN <<139679>> ELSE <<c>> ELSE IF c < 194897 THEN IF c < 194885
            THEN IF c < 194879 THEN IF c < 194876 THEN IF c = 194874 THEN
            <<30224>> ELSE IF c = 194875 THEN <<151457>> ELSE <<c>> ELSE IF c
            = 194876 THEN <<151480>> ELSE IF c = 194877 THEN <<151620>> ELSE
            IF c = 194878 THEN <<16380>> ELSE <<c>> ELSE IF c < 194882 THEN IF
            c = 194879 THEN <<16392>> ELSE IF c = 194880 THEN <<30452>> ELSE
            IF c = 194881 THEN <<151795>> ELSE <<c>> ELSE IF c = 194882 THEN
            <<151794>> ELSE IF c = 194883 THEN <<151833>> ELSE IF c = 194884
            THEN <<151859>> ELSE <<c>> ELSE IF c < 194891 THEN IF c < 194888
            THEN IF c = 194885 THEN <<30494>> ELSE IF c = 194886 THEN
            <<30495>> ELSE IF c = 194887 THEN <<30495>> ELSE <<c>> ELSE IF c =
            194888 THEN <<30538>> ELSE IF c = 194889 THEN <<16441>> ELSE IF c
            = 194890 THEN <<30603>> ELSE <<c>> ELSE IF c < 194894 THEN IF c =
            194891 THEN <<16454>> ELSE IF c = 194892 THEN <<16534>> ELSE IF c
            = 194893 THEN <<152605>> ELSE <<c>> ELSE IF c = 194894 THEN
            <<30798>> ELSE IF c = 194895 THEN <<30860>> ELSE IF c = 194896
            THEN <<30924>> ELSE <<c>> ELSE IF c < 194908 THEN IF c < 194902
            THEN IF c < 194899 THEN IF c = 194897 THEN <<16611>> ELSE IF c =
            194898 THEN <<153126>> ELSE <<c>> ELSE IF c = 194899 THEN
            <<31062>> ELSE IF c = 194900 THEN <<153242>> ELSE IF c = 194901
            THEN <<153285>> ELSE <<c>> ELSE IF c < 194905 THEN IF c = 194902
            THEN <<31119>> ELSE IF c = 194903 THEN <<31211>> ELSE IF c =
            194904 THEN <<16687>> ELSE <<c>> ELSE IF c = 194905 THEN <<31296>>
            ELSE IF c = 194906 THEN <<31306>> ELSE IF c = 194907 THEN
            <<31311>> ELSE <<c>> ELSE IF c < 194914 THEN IF c < 194911 THEN IF
            c = 194908 THEN <<153980>> ELSE IF c = 194909 THEN <<154279>> ELSE
            IF c = 194910 THEN <<154279>> ELSE <<c>> ELSE IF c = 194911 THEN
            <<31470>> ELSE IF c = 194912 THEN <<16898>> ELSE IF c = 194913
            THEN <<154539>> ELSE <<c>> ELSE IF c < 194917 THEN IF c = 194914
            THEN <<31686>> ELSE IF c = 194915 THEN <<31689>> ELSE IF c =
            194916 THEN <<16935>> ELSE <<c>> ELSE IF c = 194917 THEN
            <<154752>> ELSE IF c = 194918 THEN <<31954>> ELSE IF c = 194919
            THEN <<17056>> ELSE <<c>> ELSE IF c < 195011 THEN IF c < 194965
            THEN IF c < 194942 THEN IF c < 194931 THEN IF c < 194925 THEN IF c
            < 194922 THEN IF c = 194920 THEN <<31976>> ELSE IF c = 194921 THEN
            <<31971>> ELSE <<c>> ELSE IF c = 194922 THEN <<32000>> ELSE IF c =
            194923 THEN <<155526>> ELSE IF c = 194924 THEN <<32099>> ELSE
            <<c>> ELSE IF c < 194928 THEN IF c = 194925 THEN <<17153>> ELSE IF
            c = 194926 THEN <<32199>> ELSE IF c = 194927 THEN <<32258>> ELSE
            <<c>> ELSE IF c = 194928 THEN <<32325>> ELSE IF c = 194929 THEN
            <<17204>> ELSE IF c = 194930 THEN <<156200>> ELSE <<c>> ELSE IF c
            < 194936 THEN IF c < 194933 THEN IF c = 194931 THEN <<156231>>
            ELSE IF c = 194932 THEN <<17241>> ELSE <<c>> ELSE IF c = 194933
            THEN <<156377>> ELSE IF c = 194934 THEN <<32634>> ELSE IF c =
            194935 THEN <<156478>> ELSE <<c>> ELSE IF c < 194939 THEN IF c =
            194936 THEN <<32661>> ELSE IF c = 194937 THEN <<32762>> ELSE IF c
            = 194938 THEN <<32773>> ELSE <<c>> ELSE IF c = 194939 THEN
            <<156890>> ELSE IF c = 194940 THEN <<156963>> ELSE IF c = 194941
            THEN <<32864>> ELSE <<c>> ELSE IF c < 194953 THEN IF c < 194947
            THEN IF c < 194944 THEN IF c = 194942 THEN <<157096>> ELSE IF c =
            194943 THEN <<32880>> ELSE <<c>> ELSE IF c = 194944 THEN
            <<144223>> ELSE IF c = 194945 THEN <<17365>> ELSE IF c = 194946
            THEN <<32946>> ELSE <<c>> ELSE IF c < 194950 THEN IF c = 194947
            THEN <<33027>> ELSE IF c = 194948 THEN <<17419>> ELSE IF c =
            194949 THEN <<33086>> ELSE <<c>> ELSE IF c = 194950 THEN <<23221>>
            ELSE IF c = 194951 THEN <<157607>> ELSE IF c = 194952 THEN
            <<157621>> ELSE <<c>> ELSE IF c < 194959 THEN IF c < 194956 THEN
            IF c = 194953 THEN <<144275>> ELSE IF c = 194954 THEN <<144284>>
            ELSE IF c = 194955 THEN <<33281>> ELSE <<c>> ELSE IF c = 194956
            THEN <<33284>> ELSE IF c = 194957 THEN <<36766>> ELSE IF c =
            194958 THEN <<17515>> ELSE <<c>> ELSE IF c < 194962 THEN IF c =
            194959 THEN <<33425>> ELSE IF c = 194960 THEN <<33419>> ELSE IF c
            = 194961 THEN <<33437>> ELSE <<c>> ELSE IF c = 194962 THEN
            <<21171>> ELSE IF c = 194963 THEN <<33457>> ELSE IF c = 194964
            THEN <<33459>> ELSE <<c>> ELSE IF c < 194988 THEN IF c < 194976
            THEN IF c < 194970 THEN IF c < 194967 THEN IF c = 194965 THEN
            <<33469>> ELSE IF c = 194966 THEN <<33510>> ELSE <<c>> ELSE IF c =
            194967 THEN <<158524>> ELSE IF c = 194968 THEN <<33509>> ELSE IF c
            = 194969 THEN <<33565>> ELSE <<c>> ELSE IF c < 194973 THEN IF c =
            194970 THEN <<33635>> ELSE IF c = 194971 THEN <<33709>> ELSE IF c
            = 194972 THEN <<33571>> ELSE <<c>> ELSE IF c = 194973 THEN
            <<33725>> ELSE IF c = 194974 THEN <<33767>> ELSE IF c = 194975
            THEN <<33879>> ELSE <<c>> ELSE IF c < 194982 THEN IF c < 194979
            THEN IF c = 194976 THEN <<33619>> ELSE IF c = 194977 THEN
            <<33738>> ELSE IF c = 194978 THEN <<33740>> ELSE <<c>> ELSE IF c =
            194979 THEN <<33756>> ELSE IF c = 194980 THEN <<158774>> ELSE IF c
            = 194981 THEN <<159083>> ELSE <<c>> ELSE IF c < 194985 THEN IF c =
            194982 THEN <<158933>> ELSE IF c = 194983 THEN <<17707>> ELSE IF c
            = 194984 THEN <<34033>> ELSE <<c>> ELSE IF c = 194985 THEN
            <<34035>> ELSE IF c = 194986 THEN <<34070>> ELSE IF c = 194987
            THEN <<160714>> ELSE <<c>> ELSE IF c < 194999 THEN IF c < 194993
            THEN IF c < 194990 THEN IF c = 194988 THEN <<34148>> ELSE IF c =
            194989 THEN <<159532>> ELSE <<c>> ELSE IF c = 194990 THEN
            <<17757>> ELSE IF c = 194991 THEN <<17761>> ELSE IF c = 194992
            THEN <<159665>> ELSE <<c>> ELSE IF c < 194996 THEN IF c = 194993
            THEN <<159954>> ELSE IF c = 194994 THEN <<17771>> ELSE IF c =
            194995 THEN <<34384>> ELSE <<c>> ELSE IF c = 194996 THEN <<34396>>
            ELSE IF c = 194997 THEN <<34407>> ELSE IF c = 194998 THEN
            <<34409>> ELSE <<c>> ELSE IF c < 195005 THEN IF c < 195002 THEN IF
            c = 194999 THEN <<34473>> ELSE IF c = 195000 THEN <<34440>> ELSE
            IF c = 195001 THEN <<34574>> ELSE <<c>> ELSE IF c = 195002 THEN
            <<34530>> ELSE IF c = 195003 THEN <<34681>> ELSE IF c = 195004
            THEN <<34600>> ELSE <<c>> ELSE IF c < 195008 THEN IF c = 195005
            THEN <<34667>> ELSE IF c = 195006 THEN <<34694>> ELSE IF c =
            195007 THEN <<17879>> ELSE <<c>> ELSE IF c = 195008 THEN <<34785>>
            ELSE IF c = 195009 THEN <<34817>> ELSE IF c = 195010 THEN
            <<17913>> ELSE <<c>> ELSE IF c < 195056 THEN IF c < 195033 THEN IF
            c < 195022 THEN IF c < 195016 THEN IF c < 195013 THEN IF c =
            195011 THEN <<34912>> ELSE IF c = 195012 THEN <<34915>> ELSE <<c>>
            ELSE IF c = 195013 THEN <<161383>> ELSE IF c = 195014 THEN
            <<35031>> ELSE IF c = 195015 THEN <<35038>> ELSE <<c>> ELSE IF c <
            195019 THEN IF c = 195016 THEN <<17973>> ELSE IF c = 195017 THEN
            <<35066>> ELSE IF c = 195018 THEN <<13499>> ELSE <<c>> ELSE IF c =
            195019 THEN <<161966>> ELSE IF c = 195020 THEN <<162150>> ELSE IF
            c = 195021 THEN <<18110>> ELSE <<c>> ELSE IF c < 195027 THEN IF c
            < 195024 THEN IF c = 195022 THEN <<18119>> ELSE IF c = 195023 THEN
            <<35488>> ELSE <<c>> ELSE IF c = 195024 THEN <<35565>> ELSE IF c =
            195025 THEN <<35722>> ELSE IF c = 195026 THEN <<35925>> ELSE <<c>>
            ELSE IF c < 195030 THEN IF c = 195027 THEN <<162984>> ELSE IF c =
            195028 THEN <<36011>> ELSE IF c = 195029 THEN <<36033>> ELSE <<c>>
            ELSE IF c = 195030 THEN <<36123>> ELSE IF c = 195031 THEN
            <<36215>> ELSE IF c = 195032 THEN <<163631>> ELSE <<c>> ELSE IF c
            < 195044 THEN IF c < 195038 THEN IF c < 195035 THEN IF c = 195033
            THEN <<133124>> ELSE IF c = 195034 THEN <<36299>> ELSE <<c>> ELSE
            IF c = 195035 THEN <<36284>> ELSE IF c = 195036 THEN <<36336>>
            ELSE IF c = 195037 THEN <<133342>> ELSE <<c>> ELSE IF c < 195041
            THEN IF c = 195038 THEN <<36564>> ELSE IF c = 195039 THEN
            <<36664>> ELSE IF c = 195040 THEN <<165330>> ELSE <<c>> ELSE IF c
            = 195041 THEN <<165357>> ELSE IF c = 195042 THEN <<37012>> ELSE IF
            c = 195043 THEN <<37105>> ELSE <<c>> ELSE IF c < 195050 THEN IF c
            < 195047 THEN IF c = 195044 THEN <<37137>> ELSE IF c = 195045 THEN
            <<165678>> ELSE IF c = 195046 THEN <<37147>> ELSE <<c>> ELSE IF c
            = 195047 THEN <<37432>> ELSE IF c = 195048 THEN <<37591>> ELSE IF
            c = 195049 THEN <<37592>> ELSE <<c>> ELSE IF c < 195053 THEN IF c
            = 195050 THEN <<37500>> ELSE IF c = 195051 THEN <<37881>> ELSE IF
            c = 195052 THEN <<37909>> ELSE <<c>> ELSE IF c = 195053 THEN
            <<166906>> ELSE IF c = 195054 THEN <<38283>> ELSE IF c = 195055
            THEN <<18837>> ELSE <<c>> ELSE IF c < 195079 THEN IF c < 195067
            THEN IF c < 195061 THEN IF c < 195058 THEN IF c = 195056 THEN
            <<38327>> ELSE IF c = 195057 THEN <<167287>> ELSE <<c>> ELSE IF c
            = 195058 THEN <<18918>> ELSE IF c = 195059 THEN <<38595>> ELSE IF
            c = 195060 THEN <<23986>> ELSE <<c>> ELSE IF c < 195064 THEN IF c
            = 195061 THEN <<38691>> ELSE IF c = 195062 THEN <<168261>> ELSE IF
            c = 195063 THEN <<168474>> ELSE <<c>> ELSE IF c = 195064 THEN
            <<19054>> ELSE IF c = 195065 THEN <<19062>> ELSE IF c = 195066
            THEN <<38880>> ELSE <<c>> ELSE IF c < 195073 THEN IF c < 195070
            THEN IF c = 195067 THEN <<168970>> ELSE IF c = 195068 THEN
            <<19122>> ELSE IF c = 195069 THEN <<169110>> ELSE <<c>> ELSE IF c
            = 195070 THEN <<38923>> ELSE IF c = 195071 THEN <<38923>> ELSE IF
            c = 195072 THEN <<38953>> ELSE <<c>> ELSE IF c < 195076 THEN IF c
            = 195073 THEN <<169398>> ELSE IF c = 195074 THEN <<39138>> ELSE IF
            c = 195075 THEN <<19251>> ELSE <<c>> ELSE IF c = 195076 THEN
            <<39209>> ELSE IF c = 195077 THEN <<39335>> ELSE IF c = 195078
            THEN <<39362>> ELSE <<c>> ELSE IF c < 195090 THEN IF c < 195084
            THEN IF c < 195081 THEN IF c = 195079 THEN <<39422>> ELSE IF c =
            195080 THEN <<19406>> ELSE <<c>> ELSE IF c = 195081 THEN
            <<170800>> ELSE IF c = 195082 THEN <<39698>> ELSE IF c = 195083
            THEN <<40000>> ELSE <<c>> ELSE IF c < 195087 THEN IF c = 195084
            THEN <<40189>> ELSE IF c = 195085 THEN <<19662>> ELSE IF c =
            195086 THEN <<19693>> ELSE <<c>> ELSE IF c = 195087 THEN <<40295>>
            ELSE IF c = 195088 THEN <<172238>> ELSE IF c = 195089 THEN
            <<19704>> ELSE <<c>> ELSE IF c < 195096 THEN IF c < 195093 THEN IF
            c = 195090 THEN <<172293>> ELSE IF c = 195091 THEN <<172558>> ELSE
            IF c = 195092 THEN <<172689>> ELSE <<c>> ELSE IF c = 195093 THEN
            <<40635>> ELSE IF c = 195094 THEN <<19798>> ELSE IF c = 195095
            THEN <<40697>> ELSE <<c>> ELSE IF c < 195099 THEN IF c = 195096
            THEN <<40702>> ELSE IF c = 195097 THEN <<40709>> ELSE IF c =
            195098 THEN <<40719>> ELSE <<c>> ELSE IF c = 195099 THEN <<40726>>
            ELSE IF c = 195100 THEN <<40763>> ELSE IF c = 195101 THEN
            <<173568>> ELSE <<c>>
        \* the full compatibility decomposition of one character; a Hangul
        \* syllable (U+AC00..U+D7A3) is decomposed into its jamos by rule
        NFKD(c) ==
            IF c < 160 THEN <<c>>
            ELSE IF c \in 44032..55203
            THEN LET x == c - 44032
                     l == 4352 + x \div 588
                     v == 4449 + (x % 588) \div 28
                     t == 4519 + (x % 28)
                 IN  IF t = 4519 THEN <<l, v>> ELSE <<l, v, t>>
            ELSE Decomposition(c)
        \* unicodedata.combining(chr(c)): the canonical combining class
        combining(c) ==
            IF c < 6109 THEN IF c < 1844 THEN IF c < 1458 THEN IF c < 859 THEN
            IF c < 825 THEN IF c < 796 THEN IF c < 790 THEN IF c \in 768..788
            THEN 230 ELSE IF c = 789 THEN 232 ELSE 0 ELSE IF c \in 790..793
            THEN 220 ELSE IF c = 794 THEN 232 ELSE IF c = 795 THEN 216 ELSE 0
            ELSE IF c < 807 THEN IF c \in 796..800 THEN 220 ELSE IF c \in
            801..802 THEN 202 ELSE IF c \in 803..806 THEN 220 ELSE 0 ELSE IF c
            \in 807..808 THEN 202 ELSE IF c \in 809..819 THEN 220 ELSE IF c
            \in 820..824 THEN 1 ELSE 0 ELSE IF c < 845 THEN IF c < 838 THEN IF
            c \in 825..828 THEN 220 ELSE IF c \in 829..836 THEN 230 ELSE IF c
            = 837 THEN 240 ELSE 0 ELSE IF c = 838 THEN 230 ELSE IF c \in
            839..841 THEN 220 ELSE IF c \in 842..844 THEN 230 ELSE 0 ELSE IF c
            < 855 THEN IF c \in 845..846 THEN 220 ELSE IF c \in 848..850 THEN
            230 ELSE IF c \in 851..854 THEN 220 ELSE 0 ELSE IF c = 855 THEN
            230 ELSE IF c = 856 THEN 232 ELSE IF c \in 857..858 THEN 220 ELSE
            0 ELSE IF c < 1434 THEN IF c < 867 THEN IF c < 863 THEN IF c = 859
            THEN 230 ELSE IF c = 860 THEN 233 ELSE IF c \in 861..862 THEN 234
            ELSE 0 ELSE IF c = 863 THEN 233 ELSE IF c \in 864..865 THEN 234
            ELSE IF c = 866 THEN 233 ELSE 0 ELSE IF c < 1426 THEN IF c \in
            867..879 THEN 230 ELSE IF c \in 1155..1159 THEN 230 ELSE IF c =
            1425 THEN 220 ELSE 0 ELSE IF c \in 1426..1429 THEN 230 ELSE IF c =
            1430 THEN 220 ELSE IF c \in 1431..1433 THEN 230 ELSE 0 ELSE IF c <
            1451 THEN IF c < 1442 THEN IF c = 1434 THEN 222 ELSE IF c = 1435
            THEN 220 ELSE IF c \in 1436..1441 THEN 230 ELSE 0 ELSE IF c \in
            1442..1447 THEN 220 ELSE IF c \in 1448..1449 THEN 230 ELSE IF c =
            1450 THEN 220 ELSE 0 ELSE IF c < 1455 THEN IF c \in 1451..1452
            THEN 230 ELSE IF c = 1453 THEN 222 ELSE IF c = 1454 THEN 228 ELSE
            0 ELSE IF c = 1455 THEN 230 ELSE IF c = 1456 THEN 10 ELSE IF c =
            1457 THEN 11 ELSE 0 ELSE IF c < 1614 THEN IF c < 1473 THEN IF c <
            1464 THEN IF c < 1461 THEN IF c = 1458 THEN 12 ELSE IF c = 1459
            THEN 13 ELSE IF c = 1460 THEN 14 ELSE 0 ELSE IF c = 1461 THEN 15
            ELSE IF c = 1462 THEN 16 ELSE IF c = 1463 THEN 17 ELSE 0 ELSE IF c
            < 1468 THEN IF c = 1464 THEN 18 ELSE IF c \in 1465..1466 THEN 19
            ELSE IF c = 1467 THEN 20 ELSE 0 ELSE IF c = 1468 THEN 21 ELSE IF c
            = 1469 THEN 22 ELSE IF c = 1471 THEN 23 ELSE 0 ELSE IF c < 1560
            THEN IF c < 1477 THEN IF c = 1473 THEN 24 ELSE IF c = 1474 THEN 25
            ELSE IF c = 1476 THEN 230 ELSE 0 ELSE IF c = 1477 THEN 220 ELSE IF
            c = 1479 THEN 18 ELSE IF c \in 1552..1559 THEN 230 ELSE 0 ELSE IF
            c < 1611 THEN IF c = 1560 THEN 30 ELSE IF c = 1561 THEN 31 ELSE IF
            c = 1562 THEN 32 ELSE 0 ELSE IF c = 1611 THEN 27 ELSE IF c = 1612
            THEN 28 ELSE IF c = 1613 THEN 29 ELSE 0 ELSE IF c < 1750 THEN IF c
            < 1621 THEN IF c < 1617 THEN IF c = 1614 THEN 30 ELSE IF c = 1615
            THEN 31 ELSE IF c = 1616 THEN 32 ELSE 0 ELSE IF c = 1617 THEN 33
            ELSE IF c = 1618 THEN 34 ELSE IF c \in 1619..1620 THEN 230 ELSE 0
            ELSE IF c < 1629 THEN IF c \in 1621..1622 THEN 220 ELSE IF c \in
            1623..1627 THEN 230 ELSE IF c = 1628 THEN 220 ELSE 0 ELSE IF c \in
            1629..1630 THEN 230 ELSE IF c = 1631 THEN 220 ELSE IF c = 1648
            THEN 35 ELSE 0 ELSE IF c < 1771 THEN IF c < 1764 THEN IF c \in
            1750..1756 THEN 230 ELSE IF c \in 1759..1762 THEN 230 ELSE IF c =
            1763 THEN 220 ELSE 0 ELSE IF c = 1764 THEN 230 ELSE IF c \in
            1767..1768 THEN 230 ELSE IF c = 1770 THEN 220 ELSE 0 ELSE IF c <
            1840 THEN IF c \in 1771..1772 THEN 230 ELSE IF c = 1773 THEN 220
            ELSE IF c = 1809 THEN 36 ELSE 0 ELSE IF c = 1840 THEN 230 ELSE IF
            c = 1841 THEN 220 ELSE IF c \in 1842..1843 THEN 230 ELSE 0 ELSE IF
            c < 2385 THEN IF c < 2137 THEN IF c < 1862 THEN IF c < 1854 THEN
            IF c < 1850 THEN IF c = 1844 THEN 220 ELSE IF c \in 1845..1846
            THEN 230 ELSE IF c \in 1847..1849 THEN 220 ELSE 0 ELSE IF c = 1850
            THEN 230 ELSE IF c \in 1851..1852 THEN 220 ELSE IF c = 1853 THEN
            230 ELSE 0 ELSE IF c < 1859 THEN IF c = 1854 THEN 220 ELSE IF c
            \in 1855..1857 THEN 230 ELSE IF c = 1858 THEN 220 ELSE 0 ELSE IF c
            = 1859 THEN 230 ELSE IF c = 1860 THEN 220 ELSE IF c = 1861 THEN
            230 ELSE 0 ELSE IF c < 2035 THEN IF c < 1865 THEN IF c = 1862 THEN
            220 ELSE IF c = 1863 THEN 230 ELSE IF c = 1864 THEN 220 ELSE 0
            ELSE IF c \in 1865..1866 THEN 230 ELSE IF c \in 2027..2033 THEN
            230 ELSE IF c = 2034 THEN 220 ELSE 0 ELSE IF c < 2075 THEN IF c =
            2035 THEN 230 ELSE IF c = 2045 THEN 220 ELSE IF c \in 2070..2073
            THEN 230 ELSE 0 ELSE IF c \in 2075..2083 THEN 230 ELSE IF c \in
            2085..2087 THEN 230 ELSE IF c \in 2089..2093 THEN 230 ELSE 0 ELSE
            IF c < 2282 THEN IF c < 2260 THEN IF c < 2204 THEN IF c \in
            2137..2139 THEN 220 ELSE IF c = 2200 THEN 230 ELSE IF c \in
            2201..2203 THEN 220 ELSE 0 ELSE IF c \in 2204..2207 THEN 230 ELSE
            IF c \in 2250..2254 THEN 230 ELSE IF c \in 2255..2259 THEN 220
            ELSE 0 ELSE IF c < 2278 THEN IF c \in 2260..2273 THEN 230 ELSE IF
            c = 2275 THEN 220 ELSE IF c \in 2276..2277 THEN 230 ELSE 0 ELSE IF
            c = 2278 THEN 220 ELSE IF c \in 2279..2280 THEN 230 ELSE IF c =
            2281 THEN 220 ELSE 0 ELSE IF c < 2294 THEN IF c < 2289 THEN IF c
            \in 2282..2284 THEN 230 ELSE IF c \in 2285..2287 THEN 220 ELSE IF
            c = 2288 THEN 27 ELSE 0 ELSE IF c = 2289 THEN 28 ELSE IF c = 2290
            THEN 29 ELSE IF c \in 2291..2293 THEN 230 ELSE 0 ELSE IF c < 2299
            THEN IF c = 2294 THEN 220 ELSE IF c \in 2295..2296 THEN 230 ELSE
            IF c \in 2297..2298 THEN 220 ELSE 0 ELSE IF c \in 2299..2303 THEN
            230 ELSE IF c = 2364 THEN 7 ELSE IF c = 2381 THEN 9 ELSE 0 ELSE IF
            c < 3656 THEN IF c < 3021 THEN IF c < 2620 THEN IF c < 2492 THEN
            IF c = 2385 THEN 230 ELSE IF c = 2386 THEN 220 ELSE IF c \in
            2387..2388 THEN 230 ELSE 0 ELSE IF c = 2492 THEN 7 ELSE IF c =
            2509 THEN 9 ELSE IF c = 2558 THEN 230 ELSE 0 ELSE IF c < 2765 THEN
            IF c = 2620 THEN 7 ELSE IF c = 2637 THEN 9 ELSE IF c = 2748 THEN 7
            ELSE 0 ELSE IF c = 2765 THEN 9 ELSE IF c = 2876 THEN 7 ELSE IF c =
            2893 THEN 9 ELSE 0 ELSE IF c < 3277 THEN IF c < 3157 THEN IF c =
            3021 THEN 9 ELSE IF c = 3132 THEN 7 ELSE IF c = 3149 THEN 9 ELSE 0
            ELSE IF c = 3157 THEN 84 ELSE IF c = 3158 THEN 91 ELSE IF c = 3260
            THEN 7 ELSE 0 ELSE IF c < 3530 THEN IF c = 3277 THEN 9 ELSE IF c
            \in 3387..3388 THEN 9 ELSE IF c = 3405 THEN 9 ELSE 0 ELSE IF c =
            3530 THEN 9 ELSE IF c \in 3640..3641 THEN 103 ELSE IF c = 3642
            THEN 9 ELSE 0 ELSE IF c < 3968 THEN IF c < 3895 THEN IF c < 3784
            THEN IF c \in 3656..3659 THEN 107 ELSE IF c \in 3768..3769 THEN
            118 ELSE IF c = 3770 THEN 9 ELSE 0 ELSE IF c \in 3784..3787 THEN
            122 ELSE IF c \in 3864..3865 THEN 220 ELSE IF c = 3893 THEN 220
            ELSE 0 ELSE IF c < 3954 THEN IF c = 3895 THEN 220 ELSE IF c = 3897
            THEN 216 ELSE IF c = 3953 THEN 129 ELSE 0 ELSE IF c = 3954 THEN
            130 ELSE IF c = 3956 THEN 132 ELSE IF c \in 3962..3965 THEN 130
            ELSE 0 ELSE IF c < 4153 THEN IF c < 3974 THEN IF c = 3968 THEN 130
            ELSE IF c \in 3970..3971 THEN 230 ELSE IF c = 3972 THEN 9 ELSE 0
            ELSE IF c \in 3974..3975 THEN 230 ELSE IF c = 4038 THEN 220 ELSE
            IF c = 4151 THEN 7 ELSE 0 ELSE IF c < 5908 THEN IF c \in
            4153..4154 THEN 9 ELSE IF c = 4237 THEN 220 ELSE IF c \in
            4957..4959 THEN 230 ELSE 0 ELSE IF c \in 5908..5909 THEN 9 ELSE IF
            c = 5940 THEN 9 ELSE IF c = 6098 THEN 9 ELSE 0 ELSE IF c < 43703
            THEN IF c < 7632 THEN IF c < 7020 THEN IF c < 6837 THEN IF c <
            6679 THEN IF c < 6457 THEN IF c = 6109 THEN 230 ELSE IF c = 6313
            THEN 228 ELSE 0 ELSE IF c = 6457 THEN 222 ELSE IF c = 6458 THEN
            230 ELSE IF c = 6459 THEN 220 ELSE 0 ELSE IF c < 6773 THEN IF c =
            6679 THEN 230 ELSE IF c = 6680 THEN 220 ELSE IF c = 6752 THEN 9
            ELSE 0 ELSE IF c \in 6773..6780 THEN 230 ELSE IF c = 6783 THEN 220
            ELSE IF c \in 6832..6836 THEN 230 ELSE 0 ELSE IF c < 6853 THEN IF
            c < 6847 THEN IF c \in 6837..6842 THEN 220 ELSE IF c \in
            6843..6844 THEN 230 ELSE IF c = 6845 THEN 220 ELSE 0 ELSE IF c \in
            6847..6848 THEN 220 ELSE IF c \in 6849..6850 THEN 230 ELSE IF c
            \in 6851..6852 THEN 220 ELSE 0 ELSE IF c < 6964 THEN IF c \in
            6853..6857 THEN 230 ELSE IF c = 6858 THEN 220 ELSE IF c \in
            6859..6862 THEN 230 ELSE 0 ELSE IF c = 6964 THEN 7 ELSE IF c =
            6980 THEN 9 ELSE IF c = 7019 THEN 230 ELSE 0 ELSE IF c < 7394 THEN
            IF c < 7376 THEN IF c < 7142 THEN IF c = 7020 THEN 220 ELSE IF c
            \in 7021..7027 THEN 230 ELSE IF c \in 7082..7083 THEN 9 ELSE 0
            ELSE IF c = 7142 THEN 7 ELSE IF c \in 7154..7155 THEN 9 ELSE IF c
            = 7223 THEN 7 ELSE 0 ELSE IF c < 7386 THEN IF c \in 7376..7378
            THEN 230 ELSE IF c = 7380 THEN 1 ELSE IF c \in 7381..7385 THEN 220
            ELSE 0 ELSE IF c \in 7386..7387 THEN 230 ELSE IF c \in 7388..7391
            THEN 220 ELSE IF c = 7392 THEN 230 ELSE 0 ELSE IF c < 7619 THEN IF
            c < 7416 THEN IF c \in 7394..7400 THEN 1 ELSE IF c = 7405 THEN 220
            ELSE IF c = 7412 THEN 230 ELSE 0 ELSE IF c \in 7416..7417 THEN 230
            ELSE IF c \in 7616..7617 THEN 230 ELSE IF c = 7618 THEN 220 ELSE 0
            ELSE IF c < 7629 THEN IF c \in 7619..7625 THEN 230 ELSE IF c =
            7626 THEN 220 ELSE IF c \in 7627..7628 THEN 230 ELSE 0 ELSE IF c =
            7629 THEN 234 ELSE IF c = 7630 THEN 214 ELSE IF c = 7631 THEN 220
            ELSE 0 ELSE IF c < 11503 THEN IF c < 8402 THEN IF c < 7675 THEN IF
            c < 7671 THEN IF c = 7632 THEN 202 ELSE IF c \in 7633..7669 THEN
            230 ELSE IF c = 7670 THEN 232 ELSE 0 ELSE IF c \in 7671..7672 THEN
            228 ELSE IF c = 7673 THEN 220 ELSE IF c = 7674 THEN 218 ELSE 0
            ELSE IF c < 7678 THEN IF c = 7675 THEN 230 ELSE IF c = 7676 THEN
            233 ELSE IF c = 7677 THEN 220 ELSE 0 ELSE IF c = 7678 THEN 230
            ELSE IF c = 7679 THEN 220 ELSE IF c \in 8400..8401 THEN 230 ELSE 0
            ELSE IF c < 8423 THEN IF c < 8411 THEN IF c \in 8402..8403 THEN 1
            ELSE IF c \in 8404..8407 THEN 230 ELSE IF c \in 8408..8410 THEN 1
            ELSE 0 ELSE IF c \in 8411..8412 THEN 230 ELSE IF c = 8417 THEN 230
            ELSE IF c \in 8421..8422 THEN 1 ELSE 0 ELSE IF c < 8426 THEN IF c
            = 8423 THEN 230 ELSE IF c = 8424 THEN 220 ELSE IF c = 8425 THEN
            230 ELSE 0 ELSE IF c \in 8426..8427 THEN 1 ELSE IF c \in
            8428..8431 THEN 220 ELSE IF c = 8432 THEN 230 ELSE 0 ELSE IF c <
            42736 THEN IF c < 12333 THEN IF c < 12330 THEN IF c \in
            11503..11505 THEN 230 ELSE IF c = 11647 THEN 9 ELSE IF c \in
            11744..11775 THEN 230 ELSE 0 ELSE IF c = 12330 THEN 218 ELSE IF c
            = 12331 THEN 228 ELSE IF c = 12332 THEN 232 ELSE 0 ELSE IF c <
            42607 THEN IF c = 12333 THEN 222 ELSE IF c \in 12334..12335 THEN
            224 ELSE IF c \in 12441..12442 THEN 8 ELSE 0 ELSE IF c = 42607
            THEN 230 ELSE IF c \in 42612..42621 THEN 230 ELSE IF c \in
            42654..42655 THEN 230 ELSE 0 ELSE IF c < 43347 THEN IF c < 43204
            THEN IF c \in 42736..42737 THEN 230 ELSE IF c = 43014 THEN 9 ELSE
            IF c = 43052 THEN 9 ELSE 0 ELSE IF c = 43204 THEN 9 ELSE IF c \in
            43232..43249 THEN 230 ELSE IF c \in 43307..43309 THEN 220 ELSE 0
            ELSE IF c < 43696 THEN IF c = 43347 THEN 9 ELSE IF c = 43443 THEN
            7 ELSE IF c = 43456 THEN 9 ELSE 0 ELSE IF c = 43696 THEN 230 ELSE
            IF c \in 43698..43699 THEN 230 ELSE IF c = 43700 THEN 220 ELSE 0
            ELSE IF c < 70512 THEN IF c < 69451 THEN IF c < 68109 THEN IF c <
            65056 THEN IF c < 43766 THEN IF c \in 43703..43704 THEN 230 ELSE
            IF c \in 43710..43711 THEN 230 ELSE IF c = 43713 THEN 230 ELSE 0
            ELSE IF c = 43766 THEN 9 ELSE IF c = 44013 THEN 9 ELSE IF c =
            64286 THEN 26 ELSE 0 ELSE IF c < 66045 THEN IF c \in 65056..65062
            THEN 230 ELSE IF c \in 65063..65069 THEN 220 ELSE IF c \in
            65070..65071 THEN 230 ELSE 0 ELSE IF c = 66045 THEN 220 ELSE IF c
            = 66272 THEN 220 ELSE IF c \in 66422..66426 THEN 230 ELSE 0 ELSE
            IF c < 68325 THEN IF c < 68153 THEN IF c = 68109 THEN 220 ELSE IF
            c = 68111 THEN 230 ELSE IF c = 68152 THEN 230 ELSE 0 ELSE IF c =
            68153 THEN 1 ELSE IF c = 68154 THEN 220 ELSE IF c = 68159 THEN 9
            ELSE 0 ELSE IF c < 69291 THEN IF c = 68325 THEN 230 ELSE IF c =
            68326 THEN 220 ELSE IF c \in 68900..68903 THEN 230 ELSE 0 ELSE IF
            c \in 69291..69292 THEN 230 ELSE IF c \in 69446..69447 THEN 220
            ELSE IF c \in 69448..69450 THEN 230 ELSE 0 ELSE IF c < 69888 THEN
            IF c < 69509 THEN IF c < 69506 THEN IF c = 69451 THEN 220 ELSE IF
            c = 69452 THEN 230 ELSE IF c \in 69453..69456 THEN 220 ELSE 0 ELSE
            IF c = 69506 THEN 230 ELSE IF c = 69507 THEN 220 ELSE IF c = 69508
            THEN 230 ELSE 0 ELSE IF c < 69759 THEN IF c = 69509 THEN 220 ELSE
            IF c = 69702 THEN 9 ELSE IF c = 69744 THEN 9 ELSE 0 ELSE IF c =
            69759 THEN 9 ELSE IF c = 69817 THEN 9 ELSE IF c = 69818 THEN 7
            ELSE 0 ELSE IF c < 70198 THEN IF c < 70080 THEN IF c \in
            69888..69890 THEN 230 ELSE IF c \in 69939..69940 THEN 9 ELSE IF c
            = 70003 THEN 7 ELSE 0 ELSE IF c = 70080 THEN 9 ELSE IF c = 70090
            THEN 7 ELSE IF c = 70197 THEN 9 ELSE 0 ELSE IF c < 70459 THEN IF c
            = 70198 THEN 7 ELSE IF c = 70377 THEN 7 ELSE IF c = 70378 THEN 9
            ELSE 0 ELSE IF c \in 70459..70460 THEN 7 ELSE IF c = 70477 THEN 9
            ELSE IF c \in 70502..70508 THEN 230 ELSE 0 ELSE IF c < 92912 THEN
            IF c < 71737 THEN IF c < 71103 THEN IF c < 70750 THEN IF c \in
            70512..70516 THEN 230 ELSE IF c = 70722 THEN 9 ELSE IF c = 70726
            THEN 7 ELSE 0 ELSE IF c = 70750 THEN 230 ELSE IF c = 70850 THEN 9
            ELSE IF c = 70851 THEN 7 ELSE 0 ELSE IF c < 71350 THEN IF c =
            71103 THEN 9 ELSE IF c = 71104 THEN 7 ELSE IF c = 71231 THEN 9
            ELSE 0 ELSE IF c = 71350 THEN 9 ELSE IF c = 71351 THEN 7 ELSE IF c
            = 71467 THEN 9 ELSE 0 ELSE IF c < 72263 THEN IF c < 72003 THEN IF
            c = 71737 THEN 9 ELSE IF c = 71738 THEN 7 ELSE IF c \in
            71997..71998 THEN 9 ELSE 0 ELSE IF c = 72003 THEN 7 ELSE IF c =
            72160 THEN 9 ELSE IF c = 72244 THEN 9 ELSE 0 ELSE IF c < 73026
            THEN IF c = 72263 THEN 9 ELSE IF c = 72345 THEN 9 ELSE IF c =
            72767 THEN 9 ELSE 0 ELSE IF c = 73026 THEN 7 ELSE IF c \in
            73028..73029 THEN 9 ELSE IF c = 73111 THEN 9 ELSE 0 ELSE IF c <
            119362 THEN IF c < 119149 THEN IF c < 113822 THEN IF c \in
            92912..92916 THEN 1 ELSE IF c \in 92976..92982 THEN 230 ELSE IF c
            \in 94192..94193 THEN 6 ELSE 0 ELSE IF c = 113822 THEN 1 ELSE IF c
            \in 119141..119142 THEN 216 ELSE IF c \in 119143..119145 THEN 1
            ELSE 0 ELSE IF c < 119173 THEN IF c = 119149 THEN 226 ELSE IF c
            \in 119150..119154 THEN 216 ELSE IF c \in 119163..119170 THEN 220
            ELSE 0 ELSE IF c \in 119173..119177 THEN 230 ELSE IF c \in
            119178..119179 THEN 220 ELSE IF c \in 119210..119213 THEN 230 ELSE
            0 ELSE IF c < 123184 THEN IF c < 122907 THEN IF c \in
            119362..119364 THEN 230 ELSE IF c \in 122880..122886 THEN 230 ELSE
            IF c \in 122888..122904 THEN 230 ELSE 0 ELSE IF c \in
            122907..122913 THEN 230 ELSE IF c \in 122915..122916 THEN 230 ELSE
            IF c \in 122918..122922 THEN 230 ELSE 0 ELSE IF c < 125136 THEN IF
            c \in 123184..123190 THEN 230 ELSE IF c = 123566 THEN 230 ELSE IF
            c \in 123628..123631 THEN 230 ELSE 0 ELSE IF c \in 125136..125142
            THEN 220 ELSE IF c \in 125252..125257 THEN 230 ELSE IF c = 125258
            THEN 7 ELSE 0
        \* canonical ordering: within a run of characters of non-zero class,
        \* stable sort by class
        RECURSIVE Insert(_, _)
        Insert(t, x) ==
            IF t # <<>> /\ combining(x) > 0 /\ combining(t[Len(t)]) > combining(x)
            THEN Append(Insert(SubSeq(t, 1, Len(t) - 1), x), t[Len(t)])
            ELSE Append(t, x)
        RECURSIVE CanonicalOrder(_)
        CanonicalOrder(t) ==
            IF t = <<>> THEN <<>>
            ELSE Insert(CanonicalOrder(SubSeq(t, 1, Len(t) - 1)), t[Len(t)])
        \* the canonical compositions, the Hangul syllables left out: the
        \* composite of the pair a, b; 0 if there is none
        Composition(a, b) ==
            IF a < 6925 THEN IF a < 417 THEN IF a < 117 THEN IF a < 86 THEN IF
            a < 73 THEN IF a < 67 THEN IF a < 62 THEN IF a = 60 THEN (IF b =
            824 THEN 8814 ELSE 0) ELSE IF a = 61 THEN (IF b = 824 THEN 8800
            ELSE 0) ELSE 0 ELSE IF a = 62 THEN (IF b = 824 THEN 8815 ELSE 0)
            ELSE IF a = 65 THEN (IF b = 768 THEN 192 ELSE IF b = 769 THEN 193
            ELSE IF b = 770 THEN 194 ELSE IF b = 771 THEN 195 ELSE IF b = 772
            THEN 256 ELSE IF b = 774 THEN 258 ELSE IF b = 775 THEN 550 ELSE IF
            b = 776 THEN 196 ELSE IF b = 777 THEN 7842 ELSE IF b = 778 THEN
            197 ELSE IF b = 780 THEN 461 ELSE IF b = 783 THEN 512 ELSE IF b =
            785 THEN 514 ELSE IF b = 803 THEN 7840 ELSE IF b = 805 THEN 7680
            ELSE IF b = 808 THEN 260 ELSE 0) ELSE IF a = 66 THEN (IF b = 775
            THEN 7682 ELSE IF b = 803 THEN 7684 ELSE IF b = 817 THEN 7686 ELSE
            0) ELSE 0 ELSE IF a < 70 THEN IF a = 67 THEN (IF b = 769 THEN 262
            ELSE IF b = 770 THEN 264 ELSE IF b = 775 THEN 266 ELSE IF b = 780
            THEN 268 ELSE IF b = 807 THEN 199 ELSE 0) ELSE IF a = 68 THEN (IF
            b = 775 THEN 7690 ELSE IF b = 780 THEN 270 ELSE IF b = 803 THEN
            7692 ELSE IF b = 807 THEN 7696 ELSE IF b = 813 THEN 7698 ELSE IF b
            = 817 THEN 7694 ELSE 0) ELSE IF a = 69 THEN (IF b = 768 THEN 200
            ELSE IF b = 769 THEN 201 ELSE IF b = 770 THEN 202 ELSE IF b = 771
            THEN 7868 ELSE IF b = 772 THEN 274 ELSE IF b = 774 THEN 276 ELSE
            IF b = 775 THEN 278 ELSE IF b = 776 THEN 203 ELSE IF b = 777 THEN
            7866 ELSE IF b = 780 THEN 282 ELSE IF b = 783 THEN 516 ELSE IF b =
            785 THEN 518 ELSE IF b = 803 THEN 7864 ELSE IF b = 807 THEN 552
            ELSE IF b = 808 THEN 280 ELSE IF b = 813 THEN 7704 ELSE IF b = 816
            THEN 7706 ELSE 0) ELSE 0 ELSE IF a = 70 THEN (IF b = 775 THEN 7710
            ELSE 0) ELSE IF a = 71 THEN (IF b = 769 THEN 500 ELSE IF b = 770
            THEN 284 ELSE IF b = 772 THEN 7712 ELSE IF b = 774 THEN 286 ELSE
            IF b = 775 THEN 288 ELSE IF b = 780 THEN 486 ELSE IF b = 807 THEN
            290 ELSE 0) ELSE IF a = 72 THEN (IF b = 770 THEN 292 ELSE IF b =
            775 THEN 7714 ELSE IF b = 776 THEN 7718 ELSE IF b = 780 THEN 542
            ELSE IF b = 803 THEN 7716 ELSE IF b = 807 THEN 7720 ELSE IF b =
            814 THEN 7722 ELSE 0) ELSE 0 ELSE IF a < 79 THEN IF a < 76 THEN IF
            a = 73 THEN (IF b = 768 THEN 204 ELSE IF b = 769 THEN 205 ELSE IF
            b = 770 THEN 206 ELSE IF b = 771 THEN 296 ELSE IF b = 772 THEN 298
            ELSE IF b = 774 THEN 300 ELSE IF b = 775 THEN 304 ELSE IF b = 776
            THEN 207 ELSE IF b = 777 THEN 7880 ELSE IF b = 780 THEN 463 ELSE
            IF b = 783 THEN 520 ELSE IF b = 785 THEN 522 ELSE IF b = 803 THEN
            7882 ELSE IF b = 808 THEN 302 ELSE IF b = 816 THEN 7724 ELSE 0)
            ELSE IF a = 74 THEN (IF b = 770 THEN 308 ELSE 0) ELSE IF a = 75
            THEN (IF b = 769 THEN 7728 ELSE IF b = 780 THEN 488 ELSE IF b =
            803 THEN 7730 ELSE IF b = 807 THEN 310 ELSE IF b = 817 THEN 7732
            ELSE 0) ELSE 0 ELSE IF a = 76 THEN (IF b = 769 THEN 313 ELSE IF b
            = 780 THEN 317 ELSE IF b = 803 THEN 7734 ELSE IF b = 807 THEN 315
            ELSE IF b = 813 THEN 7740 ELSE IF b = 817 THEN 7738 ELSE 0) ELSE
            IF a = 77 THEN (IF b = 769 THEN 7742 ELSE IF b = 775 THEN 7744
            ELSE IF b = 803 THEN 7746 ELSE 0) ELSE IF a = 78 THEN (IF b = 768
            THEN 504 ELSE IF b = 769 THEN 323 ELSE IF b = 771 THEN 209 ELSE IF
            b = 775 THEN 7748 ELSE IF b = 780 THEN 327 ELSE IF b = 803 THEN
            7750 ELSE IF b = 807 THEN 325 ELSE IF b = 813 THEN 7754 ELSE IF b
            = 817 THEN 7752 ELSE 0) ELSE 0 ELSE IF a < 83 THEN IF a = 79 THEN
            (IF b = 768 THEN 210 ELSE IF b = 769 THEN 211 ELSE IF b = 770 THEN
            212 ELSE IF b = 771 THEN 213 ELSE IF b = 772 THEN 332 ELSE IF b =
            774 THEN 334 ELSE IF b = 775 THEN 558 ELSE IF b = 776 THEN 214
            ELSE IF b = 777 THEN 7886 ELSE IF b = 779 THEN 336 ELSE IF b = 780
            THEN 465 ELSE IF b = 783 THEN 524 ELSE IF b = 785 THEN 526 ELSE IF
            b = 795 THEN 416 ELSE IF b = 803 THEN 7884 ELSE IF b = 808 THEN
            490 ELSE 0) ELSE IF a = 80 THEN (IF b = 769 THEN 7764 ELSE IF b =
            775 THEN 7766 ELSE 0) ELSE IF a = 82 THEN (IF b = 769 THEN 340
            ELSE IF b = 775 THEN 7768 ELSE IF b = 780 THEN 344 ELSE IF b = 783
            THEN 528 ELSE IF b = 785 THEN 530 ELSE IF b = 803 THEN 7770 ELSE
            IF b = 807 THEN 342 ELSE IF b = 817 THEN 7774 ELSE 0) ELSE 0 ELSE
            IF a = 83 THEN (IF b = 769 THEN 346 ELSE IF b = 770 THEN 348 ELSE
            IF b = 775 THEN 7776 ELSE IF b = 780 THEN 352 ELSE IF b = 803 THEN
            7778 ELSE IF b = 806 THEN 536 ELSE IF b = 807 THEN 350 ELSE 0)
            ELSE IF a = 84 THEN (IF b = 775 THEN 7786 ELSE IF b = 780 THEN 356
            ELSE IF b = 803 THEN 7788 ELSE IF b = 806 THEN 538 ELSE IF b = 807
            THEN 354 ELSE IF b = 813 THEN 7792 ELSE IF b = 817 THEN 7790 ELSE
            0) ELSE IF a = 85 THEN (IF b = 768 THEN 217 ELSE IF b = 769 THEN
            218 ELSE IF b = 770 THEN 219 ELSE IF b = 771 THEN 360 ELSE IF b =
            772 THEN 362 ELSE IF b = 774 THEN 364 ELSE IF b = 776 THEN 220
            ELSE IF b = 777 THEN 7910 ELSE IF b = 778 THEN 366 ELSE IF b = 779
            THEN 368 ELSE IF b = 780 THEN 467 ELSE IF b = 783 THEN 532 ELSE IF
            b = 785 THEN 534 ELSE IF b = 795 THEN 431 ELSE IF b = 803 THEN
            7908 ELSE IF b = 804 THEN 7794 ELSE IF b = 808 THEN 370 ELSE IF b
            = 813 THEN 7798 ELSE IF b = 816 THEN 7796 ELSE 0) ELSE 0 ELSE IF a
            < 104 THEN IF a < 98 THEN IF a < 89 THEN IF a = 86 THEN (IF b =
            771 THEN 7804 ELSE IF b = 803 THEN 7806 ELSE 0) ELSE IF a = 87
            THEN (IF b = 768 THEN 7808 ELSE IF b = 769 THEN 7810 ELSE IF b =
            770 THEN 372 ELSE IF b = 775 THEN 7814 ELSE IF b = 776 THEN 7812
            ELSE IF b = 803 THEN 7816 ELSE 0) ELSE IF a = 88 THEN (IF b = 775
            THEN 7818 ELSE IF b = 776 THEN 7820 ELSE 0) ELSE 0 ELSE IF a = 89
            THEN (IF b = 768 THEN 7922 ELSE IF b = 769 THEN 221 ELSE IF b =
            770 THEN 374 ELSE IF b = 771 THEN 7928 ELSE IF b = 772 THEN 562
            ELSE IF b = 775 THEN 7822 ELSE IF b = 776 THEN 376 ELSE IF b = 777
            THEN 7926 ELSE IF b = 803 THEN 7924 ELSE 0) ELSE IF a = 90 THEN
            (IF b = 769 THEN 377 ELSE IF b = 770 THEN 7824 ELSE IF b = 775
            THEN 379 ELSE IF b = 780 THEN 381 ELSE IF b = 803 THEN 7826 ELSE
            IF b = 817 THEN 7828 ELSE 0) ELSE IF a = 97 THEN (IF b = 768 THEN
            224 ELSE IF b = 769 THEN 225 ELSE IF b = 770 THEN 226 ELSE IF b =
            771 THEN 227 ELSE IF b = 772 THEN 257 ELSE IF b = 774 THEN 259
            ELSE IF b = 775 THEN 551 ELSE IF b = 776 THEN 228 ELSE IF b = 777
            THEN 7843 ELSE IF b = 778 THEN 229 ELSE IF b = 780 THEN 462 ELSE
            IF b = 783 THEN 513 ELSE IF b = 785 THEN 515 ELSE IF b = 803 THEN
            7841 ELSE IF b = 805 THEN 7681 ELSE IF b = 808 THEN 261 ELSE 0)
            ELSE 0 ELSE IF a < 101 THEN IF a = 98 THEN (IF b = 775 THEN 7683
            ELSE IF b = 803 THEN 7685 ELSE IF b = 817 THEN 7687 ELSE 0) ELSE
            IF a = 99 THEN (IF b = 769 THEN 263 ELSE IF b = 770 THEN 265 ELSE
            IF b = 775 THEN 267 ELSE IF b = 780 THEN 269 ELSE IF b = 807 THEN
            231 ELSE 0) ELSE IF a = 100 THEN (IF b = 775 THEN 7691 ELSE IF b =
            780 THEN 271 ELSE IF b = 803 THEN 7693 ELSE IF b = 807 THEN 7697
            ELSE IF b = 813 THEN 7699 ELSE IF b = 817 THEN 7695 ELSE 0) ELSE 0
            ELSE IF a = 101 THEN (IF b = 768 THEN 232 ELSE IF b = 769 THEN 233
            ELSE IF b = 770 THEN 234 ELSE IF b = 771 THEN 7869 ELSE IF b = 772
            THEN 275 ELSE IF b = 774 THEN 277 ELSE IF b = 775 THEN 279 ELSE IF
            b = 776 THEN 235 ELSE IF b = 777 THEN 7867 ELSE IF b = 780 THEN
            283 ELSE IF b = 783 THEN 517 ELSE IF b = 785 THEN 519 ELSE IF b =
            803 THEN 7865 ELSE IF b = 807 THEN 553 ELSE IF b = 808 THEN 281
            ELSE IF b = 813 THEN 7705 ELSE IF b = 816 THEN 7707 ELSE 0) ELSE
            IF a = 102 THEN (IF b = 775 THEN 7711 ELSE 0) ELSE IF a = 103 THEN
            (IF b = 769 THEN 501 ELSE IF b = 770 THEN 285 ELSE IF b = 772 THEN
            7713 ELSE IF b = 774 THEN 287 ELSE IF b = 775 THEN 289 ELSE IF b =
            780 THEN 487 ELSE IF b = 807 THEN 291 ELSE 0) ELSE 0 ELSE IF a <
            110 THEN IF a < 107 THEN IF a = 104 THEN (IF b = 770 THEN 293 ELSE
            IF b = 775 THEN 7715 ELSE IF b = 776 THEN 7719 ELSE IF b = 780
            THEN 543 ELSE IF b = 803 THEN 7717 ELSE IF b = 807 THEN 7721 ELSE
            IF b = 814 THEN 7723 ELSE IF b = 817 THEN 7830 ELSE 0) ELSE IF a =
            105 THEN (IF b = 768 THEN 236 ELSE IF b = 769 THEN 237 ELSE IF b =
            770 THEN 238 ELSE IF b = 771 THEN 297 ELSE IF b = 772 THEN 299
            ELSE IF b = 774 THEN 301 ELSE IF b = 776 THEN 239 ELSE IF b = 777
            THEN 7881 ELSE IF b = 780 THEN 464 ELSE IF b = 783 THEN 521 ELSE
            IF b = 785 THEN 523 ELSE IF b = 803 THEN 7883 ELSE IF b = 808 THEN
            303 ELSE IF b = 816 THEN 7725 ELSE 0) ELSE IF a = 106 THEN (IF b =
            770 THEN 309 ELSE IF b = 780 THEN 496 ELSE 0) ELSE 0 ELSE IF a =
            107 THEN (IF b = 769 THEN 7729 ELSE IF b = 780 THEN 489 ELSE IF b
            = 803 THEN 7731 ELSE IF b = 807 THEN 311 ELSE IF b = 817 THEN 7733
            ELSE 0) ELSE IF a = 108 THEN (IF b = 769 THEN 314 ELSE IF b = 780
            THEN 318 ELSE IF b = 803 THEN 7735 ELSE IF b = 807 THEN 316 ELSE
            IF b = 813 THEN 7741 ELSE IF b = 817 THEN 7739 ELSE 0) ELSE IF a =
            109 THEN (IF b = 769 THEN 7743 ELSE IF b = 775 THEN 7745 ELSE IF b
            = 803 THEN 7747 ELSE 0) ELSE 0 ELSE IF a < 114 THEN IF a = 110
            THEN (IF b = 768 THEN 505 ELSE IF b = 769 THEN 324 ELSE IF b = 771
            THEN 241 ELSE IF b = 775 THEN 7749 ELSE IF b = 780 THEN 328 ELSE
            IF b = 803 THEN 7751 ELSE IF b = 807 THEN 326 ELSE IF b = 813 THEN
            7755 ELSE IF b = 817 THEN 7753 ELSE 0) ELSE IF a = 111 THEN (IF b
            = 768 THEN 242 ELSE IF b = 769 THEN 243 ELSE IF b = 770 THEN 244
            ELSE IF b = 771 THEN 245 ELSE IF b = 772 THEN 333 ELSE IF b = 774
            THEN 335 ELSE IF b = 775 THEN 559 ELSE IF b = 776 THEN 246 ELSE IF
            b = 777 THEN 7887 ELSE IF b = 779 THEN 337 ELSE IF b = 780 THEN
            466 ELSE IF b = 783 THEN 525 ELSE IF b = 785 THEN 527 ELSE IF b =
            795 THEN 417 ELSE IF b = 803 THEN 7885 ELSE IF b = 808 THEN 491
            ELSE 0) ELSE IF a = 112 THEN (IF b = 769 THEN 7765 ELSE IF b = 775
            THEN 7767 ELSE 0) ELSE 0 ELSE IF a = 114 THEN (IF b = 769 THEN 341
            ELSE IF b = 775 THEN 7769 ELSE IF b = 780 THEN 345 ELSE IF b = 783
            THEN 529 ELSE IF b = 785 THEN 531 ELSE IF b = 803 THEN 7771 ELSE
            IF b = 807 THEN 343 ELSE IF b = 817 THEN 7775 ELSE 0) ELSE IF a =
            115 THEN (IF b = 769 THEN 347 ELSE IF b = 770 THEN 349 ELSE IF b =
            775 THEN 7777 ELSE IF b = 780 THEN 353 ELSE IF b = 803 THEN 7779
            ELSE IF b = 806 THEN 537 ELSE IF b = 807 THEN 351 ELSE 0) ELSE IF
            a = 116 THEN (IF b = 775 THEN 7787 ELSE IF b = 776 THEN 7831 ELSE
            IF b = 780 THEN 357 ELSE IF b = 803 THEN 7789 ELSE IF b = 806 THEN
            539 ELSE IF b = 807 THEN 355 ELSE IF b = 813 THEN 7793 ELSE IF b =
            817 THEN 7791 ELSE 0) ELSE 0 ELSE IF a < 231 THEN IF a < 199 THEN
            IF a < 122 THEN IF a < 119 THEN IF a = 117 THEN (IF b = 768 THEN
            249 ELSE IF b = 769 THEN 250 ELSE IF b = 770 THEN 251 ELSE IF b =
            771 THEN 361 ELSE IF b = 772 THEN 363 ELSE IF b = 774 THEN 365
            ELSE IF b = 776 THEN 252 ELSE IF b = 777 THEN 7911 ELSE IF b = 778
            THEN 367 ELSE IF b = 779 THEN 369 ELSE IF b = 780 THEN 468 ELSE IF
            b = 783 THEN 533 ELSE IF b = 785 THEN 535 ELSE IF b = 795 THEN 432
            ELSE IF b = 803 THEN 7909 ELSE IF b = 804 THEN 7795 ELSE IF b =
            808 THEN 371 ELSE IF b = 813 THEN 7799 ELSE IF b = 816 THEN 7797
            ELSE 0) ELSE IF a = 118 THEN (IF b = 771 THEN 7805 ELSE IF b = 803
            THEN 7807 ELSE 0) ELSE 0 ELSE IF a = 119 THEN (IF b = 768 THEN
            7809 ELSE IF b = 769 THEN 7811 ELSE IF b = 770 THEN 373 ELSE IF b
            = 775 THEN 7815 ELSE IF b = 776 THEN 7813 ELSE IF b = 778 THEN
            7832 ELSE IF b = 803 THEN 7817 ELSE 0) ELSE IF a = 120 THEN (IF b
            = 775 THEN 7819 ELSE IF b = 776 THEN 7821 ELSE 0) ELSE IF a = 121
            THEN (IF b = 768 THEN 7923 ELSE IF b = 769 THEN 253 ELSE IF b =
            770 THEN 375 ELSE IF b = 771 THEN 7929 ELSE IF b = 772 THEN 563
            ELSE IF b = 775 THEN 7823 ELSE IF b = 776 THEN 255 ELSE IF b = 777
            THEN 7927 ELSE IF b = 778 THEN 7833 ELSE IF b = 803 THEN 7925 ELSE
            0) ELSE 0 ELSE IF a < 196 THEN IF a = 122 THEN (IF b = 769 THEN
            378 ELSE IF b = 770 THEN 7825 ELSE IF b = 775 THEN 380 ELSE IF b =
            780 THEN 382 ELSE IF b = 803 THEN 7827 ELSE IF b = 817 THEN 7829
            ELSE 0) ELSE IF a = 168 THEN (IF b = 768 THEN 8173 ELSE IF b = 769
            THEN 901 ELSE IF b = 834 THEN 8129 ELSE 0) ELSE IF a = 194 THEN
            (IF b = 768 THEN 7846 ELSE IF b = 769 THEN 7844 ELSE IF b = 771
            THEN 7850 ELSE IF b = 777 THEN 7848 ELSE 0) ELSE 0 ELSE IF a = 196
            THEN (IF b = 772 THEN 478 ELSE 0) ELSE IF a = 197 THEN (IF b = 769
            THEN 506 ELSE 0) ELSE IF a = 198 THEN (IF b = 769 THEN 508 ELSE IF
            b = 772 THEN 482 ELSE 0) ELSE 0 ELSE IF a < 216 THEN IF a < 212
            THEN IF a = 199 THEN (IF b = 769 THEN 7688 ELSE 0) ELSE IF a = 202
            THEN (IF b = 768 THEN 7872 ELSE IF b = 769 THEN 7870 ELSE IF b =
            771 THEN 7876 ELSE IF b = 777 THEN 7874 ELSE 0) ELSE IF a = 207
            THEN (IF b = 769 THEN 7726 ELSE 0) ELSE 0 ELSE IF a = 212 THEN (IF
            b = 768 THEN 7890 ELSE IF b = 769 THEN 7888 ELSE IF b = 771 THEN
            7894 ELSE IF b = 777 THEN 7892 ELSE 0) ELSE IF a = 213 THEN (IF b
            = 769 THEN 7756 ELSE IF b = 772 THEN 556 ELSE IF b = 776 THEN 7758
            ELSE 0) ELSE IF a = 214 THEN (IF b = 772 THEN 554 ELSE 0) ELSE 0
            ELSE IF a < 228 THEN IF a = 216 THEN (IF b = 769 THEN 510 ELSE 0)
            ELSE IF a = 220 THEN (IF b = 768 THEN 475 ELSE IF b = 769 THEN 471
            ELSE IF b = 772 THEN 469 ELSE IF b = 780 THEN 473 ELSE 0) ELSE IF
            a = 226 THEN (IF b = 768 THEN 7847 ELSE IF b = 769 THEN 7845 ELSE
            IF b = 771 THEN 7851 ELSE IF b = 777 THEN 7849 ELSE 0) ELSE 0 ELSE
            IF a = 228 THEN (IF b = 772 THEN 479 ELSE 0) ELSE IF a = 229 THEN
            (IF b = 769 THEN 507 ELSE 0) ELSE IF a = 230 THEN (IF b = 769 THEN
            509 ELSE IF b = 772 THEN 483 ELSE 0) ELSE 0 ELSE IF a < 332 THEN
            IF a < 248 THEN IF a < 244 THEN IF a = 231 THEN (IF b = 769 THEN
            7689 ELSE 0) ELSE IF a = 234 THEN (IF b = 768 THEN 7873 ELSE IF b
            = 769 THEN 7871 ELSE IF b = 771 THEN 7877 ELSE IF b = 777 THEN
            7875 ELSE 0) ELSE IF a = 239 THEN (IF b = 769 THEN 7727 ELSE 0)
            ELSE 0 ELSE IF a = 244 THEN (IF b = 768 THEN 7891 ELSE IF b = 769
            THEN 7889 ELSE IF b = 771 THEN 7895 ELSE IF b = 777 THEN 7893 ELSE
            0) ELSE IF a = 245 THEN (IF b = 769 THEN 7757 ELSE IF b = 772 THEN
            557 ELSE IF b = 776 THEN 7759 ELSE 0) ELSE IF a = 246 THEN (IF b =
            772 THEN 555 ELSE 0) ELSE 0 ELSE IF a < 259 THEN IF a = 248 THEN
            (IF b = 769 THEN 511 ELSE 0) ELSE IF a = 252 THEN (IF b = 768 THEN
            476 ELSE IF b = 769 THEN 472 ELSE IF b = 772 THEN 470 ELSE IF b =
            780 THEN 474 ELSE 0) ELSE IF a = 258 THEN (IF b = 768 THEN 7856
            ELSE IF b = 769 THEN 7854 ELSE IF b = 771 THEN 7860 ELSE IF b =
            777 THEN 7858 ELSE 0) ELSE 0 ELSE IF a = 259 THEN (IF b = 768 THEN
            7857 ELSE IF b = 769 THEN 7855 ELSE IF b = 771 THEN 7861 ELSE IF b
            = 777 THEN 7859 ELSE 0) ELSE IF a = 274 THEN (IF b = 768 THEN 7700
            ELSE IF b = 769 THEN 7702 ELSE 0) ELSE IF a = 275 THEN (IF b = 768
            THEN 7701 ELSE IF b = 769 THEN 7703 ELSE 0) ELSE 0 ELSE IF a < 360
            THEN IF a < 347 THEN IF a = 332 THEN (IF b = 768 THEN 7760 ELSE IF
            b = 769 THEN 7762 ELSE 0) ELSE IF a = 333 THEN (IF b = 768 THEN
            7761 ELSE IF b = 769 THEN 7763 ELSE 0) ELSE IF a = 346 THEN (IF b
            = 775 THEN 7780 ELSE 0) ELSE 0 ELSE IF a = 347 THEN (IF b = 775
            THEN 7781 ELSE 0) ELSE IF a = 352 THEN (IF b = 775 THEN 7782 ELSE
            0) ELSE IF a = 353 THEN (IF b = 775 THEN 7783 ELSE 0) ELSE 0 ELSE
            IF a < 363 THEN IF a = 360 THEN (IF b = 769 THEN 7800 ELSE 0) ELSE
            IF a = 361 THEN (IF b = 769 THEN 7801 ELSE 0) ELSE IF a = 362 THEN
            (IF b = 776 THEN 7802 ELSE 0) ELSE 0 ELSE IF a = 363 THEN (IF b =
            776 THEN 7803 ELSE 0) ELSE IF a = 383 THEN (IF b = 775 THEN 7835
            ELSE 0) ELSE IF a = 416 THEN (IF b = 768 THEN 7900 ELSE IF b = 769
            THEN 7898 ELSE IF b = 771 THEN 7904 ELSE IF b = 777 THEN 7902 ELSE
            IF b = 803 THEN 7906 ELSE 0) ELSE 0 ELSE IF a < 1069 THEN IF a <
            945 THEN IF a < 559 THEN IF a < 491 THEN IF a < 432 THEN IF a =
            417 THEN (IF b = 768 THEN 7901 ELSE IF b = 769 THEN 7899 ELSE IF b
            = 771 THEN 7905 ELSE IF b = 777 THEN 7903 ELSE IF b = 803 THEN
            7907 ELSE 0) ELSE IF a = 431 THEN (IF b = 768 THEN 7914 ELSE IF b
            = 769 THEN 7912 ELSE IF b = 771 THEN 7918 ELSE IF b = 777 THEN
            7916 ELSE IF b = 803 THEN 7920 ELSE 0) ELSE 0 ELSE IF a = 432 THEN
            (IF b = 768 THEN 7915 ELSE IF b = 769 THEN 7913 ELSE IF b = 771
            THEN 7919 ELSE IF b = 777 THEN 7917 ELSE IF b = 803 THEN 7921 ELSE
            0) ELSE IF a = 439 THEN (IF b = 780 THEN 494 ELSE 0) ELSE IF a =
            490 THEN (IF b = 772 THEN 492 ELSE 0) ELSE 0 ELSE IF a < 552 THEN
            IF a = 491 THEN (IF b = 772 THEN 493 ELSE 0) ELSE IF a = 550 THEN
            (IF b = 772 THEN 480 ELSE 0) ELSE IF a = 551 THEN (IF b = 772 THEN
            481 ELSE 0) ELSE 0 ELSE IF a = 552 THEN (IF b = 774 THEN 7708 ELSE
            0) ELSE IF a = 553 THEN (IF b = 774 THEN 7709 ELSE 0) ELSE IF a =
            558 THEN (IF b = 772 THEN 560 ELSE 0) ELSE 0 ELSE IF a < 927 THEN
            IF a < 917 THEN IF a = 559 THEN (IF b = 772 THEN 561 ELSE 0) ELSE
            IF a = 658 THEN (IF b = 780 THEN 495 ELSE 0) ELSE IF a = 913 THEN
            (IF b = 768 THEN 8122 ELSE IF b = 769 THEN 902 ELSE IF b = 772
            THEN 8121 ELSE IF b = 774 THEN 8120 ELSE IF b = 787 THEN 7944 ELSE
            IF b = 788 THEN 7945 ELSE IF b = 837 THEN 8124 ELSE 0) ELSE 0 ELSE
            IF a = 917 THEN (IF b = 768 THEN 8136 ELSE IF b = 769 THEN 904
            ELSE IF b = 787 THEN 7960 ELSE IF b = 788 THEN 7961 ELSE 0) ELSE
            IF a = 919 THEN (IF b = 768 THEN 8138 ELSE IF b = 769 THEN 905
            ELSE IF b = 787 THEN 7976 ELSE IF b = 788 THEN 7977 ELSE IF b =
            837 THEN 8140 ELSE 0) ELSE IF a = 921 THEN (IF b = 768 THEN 8154
            ELSE IF b = 769 THEN 906 ELSE IF b = 772 THEN 8153 ELSE IF b = 774
            THEN 8152 ELSE IF b = 776 THEN 938 ELSE IF b = 787 THEN 7992 ELSE
            IF b = 788 THEN 7993 ELSE 0) ELSE 0 ELSE IF a < 937 THEN IF a =
            927 THEN (IF b = 768 THEN 8184 ELSE IF b = 769 THEN 908 ELSE IF b
            = 787 THEN 8008 ELSE IF b = 788 THEN 8009 ELSE 0) ELSE IF a = 929
            THEN (IF b = 788 THEN 8172 ELSE 0) ELSE IF a = 933 THEN (IF b =
            768 THEN 8170 ELSE IF b = 769 THEN 910 ELSE IF b = 772 THEN 8169
            ELSE IF b = 774 THEN 8168 ELSE IF b = 776 THEN 939 ELSE IF b = 788
            THEN 8025 ELSE 0) ELSE 0 ELSE IF a = 937 THEN (IF b = 768 THEN
            8186 ELSE IF b = 769 THEN 911 ELSE IF b = 787 THEN 8040 ELSE IF b
            = 788 THEN 8041 ELSE IF b = 837 THEN 8188 ELSE 0) ELSE IF a = 940
            THEN (IF b = 837 THEN 8116 ELSE 0) ELSE IF a = 942 THEN (IF b =
            837 THEN 8132 ELSE 0) ELSE 0 ELSE IF a < 1030 THEN IF a < 965 THEN
            IF a < 953 THEN IF a = 945 THEN (IF b = 768 THEN 8048 ELSE IF b =
            769 THEN 940 ELSE IF b = 772 THEN 8113 ELSE IF b = 774 THEN 8112
            ELSE IF b = 787 THEN 7936 ELSE IF b = 788 THEN 7937 ELSE IF b =
            834 THEN 8118 ELSE IF b = 837 THEN 8115 ELSE 0) ELSE IF a = 949
            THEN (IF b = 768 THEN 8050 ELSE IF b = 769 THEN 941 ELSE IF b =
            787 THEN 7952 ELSE IF b = 788 THEN 7953 ELSE 0) ELSE IF a = 951
            THEN (IF b = 768 THEN 8052 ELSE IF b = 769 THEN 942 ELSE IF b =
            787 THEN 7968 ELSE IF b = 788 THEN 7969 ELSE IF b = 834 THEN 8134
            ELSE IF b = 837 THEN 8131 ELSE 0) ELSE 0 ELSE IF a = 953 THEN (IF
            b = 768 THEN 8054 ELSE IF b = 769 THEN 943 ELSE IF b = 772 THEN
            8145 ELSE IF b = 774 THEN 8144 ELSE IF b = 776 THEN 970 ELSE IF b
            = 787 THEN 7984 ELSE IF b = 788 THEN 7985 ELSE IF b = 834 THEN
            8150 ELSE 0) ELSE IF a = 959 THEN (IF b = 768 THEN 8056 ELSE IF b
            = 769 THEN 972 ELSE IF b = 787 THEN 8000 ELSE IF b = 788 THEN 8001
            ELSE 0) ELSE IF a = 961 THEN (IF b = 787 THEN 8164 ELSE IF b = 788
            THEN 8165 ELSE 0) ELSE 0 ELSE IF a < 971 THEN IF a = 965 THEN (IF
            b = 768 THEN 8058 ELSE IF b = 769 THEN 973 ELSE IF b = 772 THEN
            8161 ELSE IF b = 774 THEN 8160 ELSE IF b = 776 THEN 971 ELSE IF b
            = 787 THEN 8016 ELSE IF b = 788 THEN 8017 ELSE IF b = 834 THEN
            8166 ELSE 0) ELSE IF a = 969 THEN (IF b = 768 THEN 8060 ELSE IF b
            = 769 THEN 974 ELSE IF b = 787 THEN 8032 ELSE IF b = 788 THEN 8033
            ELSE IF b = 834 THEN 8182 ELSE IF b = 837 THEN 8179 ELSE 0) ELSE
            IF a = 970 THEN (IF b = 768 THEN 8146 ELSE IF b = 769 THEN 912
            ELSE IF b = 834 THEN 8151 ELSE 0) ELSE 0 ELSE IF a = 971 THEN (IF
            b = 768 THEN 8162 ELSE IF b = 769 THEN 944 ELSE IF b = 834 THEN
            8167 ELSE 0) ELSE IF a = 974 THEN (IF b = 837 THEN 8180 ELSE 0)
            ELSE IF a = 978 THEN (IF b = 769 THEN 979 ELSE IF b = 776 THEN 980
            ELSE 0) ELSE 0 ELSE IF a < 1048 THEN IF a < 1045 THEN IF a = 1030
            THEN (IF b = 776 THEN 1031 ELSE 0) ELSE IF a = 1040 THEN (IF b =
            774 THEN 1232 ELSE IF b = 776 THEN 1234 ELSE 0) ELSE IF a = 1043
            THEN (IF b = 769 THEN 1027 ELSE 0) ELSE 0 ELSE IF a = 1045 THEN
            (IF b = 768 THEN 1024 ELSE IF b = 774 THEN 1238 ELSE IF b = 776
            THEN 1025 ELSE 0) ELSE IF a = 1046 THEN (IF b = 774 THEN 1217 ELSE
            IF b = 776 THEN 1244 ELSE 0) ELSE IF a = 1047 THEN (IF b = 776
            THEN 1246 ELSE 0) ELSE 0 ELSE IF a < 1059 THEN IF a = 1048 THEN
            (IF b = 768 THEN 1037 ELSE IF b = 772 THEN 1250 ELSE IF b = 774
            THEN 1049 ELSE IF b = 776 THEN 1252 ELSE 0) ELSE IF a = 1050 THEN
            (IF b = 769 THEN 1036 ELSE 0) ELSE IF a = 1054 THEN (IF b = 776
            THEN 1254 ELSE 0) ELSE 0 ELSE IF a = 1059 THEN (IF b = 772 THEN
            1262 ELSE IF b = 774 THEN 1038 ELSE IF b = 776 THEN 1264 ELSE IF b
            = 779 THEN 1266 ELSE 0) ELSE IF a = 1063 THEN (IF b = 776 THEN
            1268 ELSE 0) ELSE IF a = 1067 THEN (IF b = 776 THEN 1272 ELSE 0)
            ELSE 0 ELSE IF a < 1729 THEN IF a < 1099 THEN IF a < 1079 THEN IF
            a < 1075 THEN IF a = 1069 THEN (IF b = 776 THEN 1260 ELSE 0) ELSE
            IF a = 1072 THEN (IF b = 774 THEN 1233 ELSE IF b = 776 THEN 1235
            ELSE 0) ELSE 0 ELSE IF a = 1075 THEN (IF b = 769 THEN 1107 ELSE 0)
            ELSE IF a = 1077 THEN (IF b = 768 THEN 1104 ELSE IF b = 774 THEN
            1239 ELSE IF b = 776 THEN 1105 ELSE 0) ELSE IF a = 1078 THEN (IF b
            = 774 THEN 1218 ELSE IF b = 776 THEN 1245 ELSE 0) ELSE 0 ELSE IF a
            < 1086 THEN IF a = 1079 THEN (IF b = 776 THEN 1247 ELSE 0) ELSE IF
            a = 1080 THEN (IF b = 768 THEN 1117 ELSE IF b = 772 THEN 1251 ELSE
            IF b = 774 THEN 1081 ELSE IF b = 776 THEN 1253 ELSE 0) ELSE IF a =
            1082 THEN (IF b = 769 THEN 1116 ELSE 0) ELSE 0 ELSE IF a = 1086
            THEN (IF b = 776 THEN 1255 ELSE 0) ELSE IF a = 1091 THEN (IF b =
            772 THEN 1263 ELSE IF b = 774 THEN 1118 ELSE IF b = 776 THEN 1265
            ELSE IF b = 779 THEN 1267 ELSE 0) ELSE IF a = 1095 THEN (IF b =
            776 THEN 1269 ELSE 0) ELSE 0 ELSE IF a < 1241 THEN IF a < 1140
            THEN IF a = 1099 THEN (IF b = 776 THEN 1273 ELSE 0) ELSE IF a =
            1101 THEN (IF b = 776 THEN 1261 ELSE 0) ELSE IF a = 1110 THEN (IF
            b = 776 THEN 1111 ELSE 0) ELSE 0 ELSE IF a = 1140 THEN (IF b = 783
            THEN 1142 ELSE 0) ELSE IF a = 1141 THEN (IF b = 783 THEN 1143 ELSE
            0) ELSE IF a = 1240 THEN (IF b = 776 THEN 1242 ELSE 0) ELSE 0 ELSE
            IF a < 1575 THEN IF a = 1241 THEN (IF b = 776 THEN 1243 ELSE 0)
            ELSE IF a = 1256 THEN (IF b = 776 THEN 1258 ELSE 0) ELSE IF a =
            1257 THEN (IF b = 776 THEN 1259 ELSE 0) ELSE 0 ELSE IF a = 1575
            THEN (IF b = 1619 THEN 1570 ELSE IF b = 1620 THEN 1571 ELSE IF b =
            1621 THEN 1573 ELSE 0) ELSE IF a = 1608 THEN (IF b = 1620 THEN
            1572 ELSE 0) ELSE IF a = 1610 THEN (IF b = 1620 THEN 1574 ELSE 0)
            ELSE 0 ELSE IF a < 3263 THEN IF a < 2503 THEN IF a < 2344 THEN IF
            a = 1729 THEN (IF b = 1620 THEN 1730 ELSE 0) ELSE IF a = 1746 THEN
            (IF b = 1620 THEN 1747 ELSE 0) ELSE IF a = 1749 THEN (IF b = 1620
            THEN 1728 ELSE 0) ELSE 0 ELSE IF a = 2344 THEN (IF b = 2364 THEN
            2345 ELSE 0) ELSE IF a = 2352 THEN (IF b = 2364 THEN 2353 ELSE 0)
            ELSE IF a = 2355 THEN (IF b = 2364 THEN 2356 ELSE 0) ELSE 0 ELSE
            IF a < 3014 THEN IF a = 2503 THEN (IF b = 2494 THEN 2507 ELSE IF b
            = 2519 THEN 2508 ELSE 0) ELSE IF a = 2887 THEN (IF b = 2878 THEN
            2891 ELSE IF b = 2902 THEN 2888 ELSE IF b = 2903 THEN 2892 ELSE 0)
            ELSE IF a = 2962 THEN (IF b = 3031 THEN 2964 ELSE 0) ELSE 0 ELSE
            IF a = 3014 THEN (IF b = 3006 THEN 3018 ELSE IF b = 3031 THEN 3020
            ELSE 0) ELSE IF a = 3015 THEN (IF b = 3006 THEN 3019 ELSE 0) ELSE
            IF a = 3142 THEN (IF b = 3158 THEN 3144 ELSE 0) ELSE 0 ELSE IF a <
            3548 THEN IF a < 3398 THEN IF a = 3263 THEN (IF b = 3285 THEN 3264
            ELSE 0) ELSE IF a = 3270 THEN (IF b = 3266 THEN 3274 ELSE IF b =
            3285 THEN 3271 ELSE IF b = 3286 THEN 3272 ELSE 0) ELSE IF a = 3274
            THEN (IF b = 3285 THEN 3275 ELSE 0) ELSE 0 ELSE IF a = 3398 THEN
            (IF b = 3390 THEN 3402 ELSE IF b = 3415 THEN 3404 ELSE 0) ELSE IF
            a = 3399 THEN (IF b = 3390 THEN 3403 ELSE 0) ELSE IF a = 3545 THEN
            (IF b = 3530 THEN 3546 ELSE IF b = 3535 THEN 3548 ELSE IF b = 3551
            THEN 3550 ELSE 0) ELSE 0 ELSE IF a < 6919 THEN IF a = 3548 THEN
            (IF b = 3530 THEN 3549 ELSE 0) ELSE IF a = 4133 THEN (IF b = 4142
            THEN 4134 ELSE 0) ELSE IF a = 6917 THEN (IF b = 6965 THEN 6918
            ELSE 0) ELSE 0 ELSE IF a = 6919 THEN (IF b = 6965 THEN 6920 ELSE
            0) ELSE IF a = 6921 THEN (IF b = 6965 THEN 6922 ELSE 0) ELSE IF a
            = 6923 THEN (IF b = 6965 THEN 6924 ELSE 0) ELSE 0 ELSE IF a < 8658
            THEN IF a < 7976 THEN IF a < 7940 THEN IF a < 7778 THEN IF a <
            6975 THEN IF a < 6970 THEN IF a = 6925 THEN (IF b = 6965 THEN 6926
            ELSE 0) ELSE IF a = 6929 THEN (IF b = 6965 THEN 6930 ELSE 0) ELSE
            0 ELSE IF a = 6970 THEN (IF b = 6965 THEN 6971 ELSE 0) ELSE IF a =
            6972 THEN (IF b = 6965 THEN 6973 ELSE 0) ELSE IF a = 6974 THEN (IF
            b = 6965 THEN 6976 ELSE 0) ELSE 0 ELSE IF a < 7735 THEN IF a =
            6975 THEN (IF b = 6965 THEN 6977 ELSE 0) ELSE IF a = 6978 THEN (IF
            b = 6965 THEN 6979 ELSE 0) ELSE IF a = 7734 THEN (IF b = 772 THEN
            7736 ELSE 0) ELSE 0 ELSE IF a = 7735 THEN (IF b = 772 THEN 7737
            ELSE 0) ELSE IF a = 7770 THEN (IF b = 772 THEN 7772 ELSE 0) ELSE
            IF a = 7771 THEN (IF b = 772 THEN 7773 ELSE 0) ELSE 0 ELSE IF a <
            7884 THEN IF a < 7841 THEN IF a = 7778 THEN (IF b = 775 THEN 7784
            ELSE 0) ELSE IF a = 7779 THEN (IF b = 775 THEN 7785 ELSE 0) ELSE
            IF a = 7840 THEN (IF b = 770 THEN 7852 ELSE IF b = 774 THEN 7862
            ELSE 0) ELSE 0 ELSE IF a = 7841 THEN (IF b = 770 THEN 7853 ELSE IF
            b = 774 THEN 7863 ELSE 0) ELSE IF a = 7864 THEN (IF b = 770 THEN
            7878 ELSE 0) ELSE IF a = 7865 THEN (IF b = 770 THEN 7879 ELSE 0)
            ELSE 0 ELSE IF a < 7937 THEN IF a = 7884 THEN (IF b = 770 THEN
            7896 ELSE 0) ELSE IF a = 7885 THEN (IF b = 770 THEN 7897 ELSE 0)
            ELSE IF a = 7936 THEN (IF b = 768 THEN 7938 ELSE IF b = 769 THEN
            7940 ELSE IF b = 834 THEN 7942 ELSE IF b = 837 THEN 8064 ELSE 0)
            ELSE 0 ELSE IF a = 7937 THEN (IF b = 768 THEN 7939 ELSE IF b = 769
            THEN 7941 ELSE IF b = 834 THEN 7943 ELSE IF b = 837 THEN 8065 ELSE
            0) ELSE IF a = 7938 THEN (IF b = 837 THEN 8066 ELSE 0) ELSE IF a =
            7939 THEN (IF b = 837 THEN 8067 ELSE 0) ELSE 0 ELSE IF a < 7952
            THEN IF a < 7946 THEN IF a < 7943 THEN IF a = 7940 THEN (IF b =
            837 THEN 8068 ELSE 0) ELSE IF a = 7941 THEN (IF b = 837 THEN 8069
            ELSE 0) ELSE IF a = 7942 THEN (IF b = 837 THEN 8070 ELSE 0) ELSE 0
            ELSE IF a = 7943 THEN (IF b = 837 THEN 8071 ELSE 0) ELSE IF a =
            7944 THEN (IF b = 768 THEN 7946 ELSE IF b = 769 THEN 7948 ELSE IF
            b = 834 THEN 7950 ELSE IF b = 837 THEN 8072 ELSE 0) ELSE IF a =
            7945 THEN (IF b = 768 THEN 7947 ELSE IF b = 769 THEN 7949 ELSE IF
            b = 834 THEN 7951 ELSE IF b = 837 THEN 8073 ELSE 0) ELSE 0 ELSE IF
            a < 7949 THEN IF a = 7946 THEN (IF b = 837 THEN 8074 ELSE 0) ELSE
            IF a = 7947 THEN (IF b = 837 THEN 8075 ELSE 0) ELSE IF a = 7948
            THEN (IF b = 837 THEN 8076 ELSE 0) ELSE 0 ELSE IF a = 7949 THEN
            (IF b = 837 THEN 8077 ELSE 0) ELSE IF a = 7950 THEN (IF b = 837
            THEN 8078 ELSE 0) ELSE IF a = 7951 THEN (IF b = 837 THEN 8079 ELSE
            0) ELSE 0 ELSE IF a < 7970 THEN IF a < 7961 THEN IF a = 7952 THEN
            (IF b = 768 THEN 7954 ELSE IF b = 769 THEN 7956 ELSE 0) ELSE IF a
            = 7953 THEN (IF b = 768 THEN 7955 ELSE IF b = 769 THEN 7957 ELSE
            0) ELSE IF a = 7960 THEN (IF b = 768 THEN 7962 ELSE IF b = 769
            THEN 7964 ELSE 0) ELSE 0 ELSE IF a = 7961 THEN (IF b = 768 THEN
            7963 ELSE IF b = 769 THEN 7965 ELSE 0) ELSE IF a = 7968 THEN (IF b
            = 768 THEN 7970 ELSE IF b = 769 THEN 7972 ELSE IF b = 834 THEN
            7974 ELSE IF b = 837 THEN 8080 ELSE 0) ELSE IF a = 7969 THEN (IF b
            = 768 THEN 7971 ELSE IF b = 769 THEN 7973 ELSE IF b = 834 THEN
            7975 ELSE IF b = 837 THEN 8081 ELSE 0) ELSE 0 ELSE IF a < 7973
            THEN IF a = 7970 THEN (IF b = 837 THEN 8082 ELSE 0) ELSE IF a =
            7971 THEN (IF b = 837 THEN 8083 ELSE 0) ELSE IF a = 7972 THEN (IF
            b = 837 THEN 8084 ELSE 0) ELSE 0 ELSE IF a = 7973 THEN (IF b = 837
            THEN 8085 ELSE 0) ELSE IF a = 7974 THEN (IF b = 837 THEN 8086 ELSE
            0) ELSE IF a = 7975 THEN (IF b = 837 THEN 8087 ELSE 0) ELSE 0 ELSE
            IF a < 8036 THEN IF a < 7993 THEN IF a < 7981 THEN IF a < 7978
            THEN IF a = 7976 THEN (IF b = 768 THEN 7978 ELSE IF b = 769 THEN
            7980 ELSE IF b = 834 THEN 7982 ELSE IF b = 837 THEN 8088 ELSE 0)
            ELSE IF a = 7977 THEN (IF b = 768 THEN 7979 ELSE IF b = 769 THEN
            7981 ELSE IF b = 834 THEN 7983 ELSE IF b = 837 THEN 8089 ELSE 0)
            ELSE 0 ELSE IF a = 7978 THEN (IF b = 837 THEN 8090 ELSE 0) ELSE IF
            a = 7979 THEN (IF b = 837 THEN 8091 ELSE 0) ELSE IF a = 7980 THEN
            (IF b = 837 THEN 8092 ELSE 0) ELSE 0 ELSE IF a < 7984 THEN IF a =
            7981 THEN (IF b = 837 THEN 8093 ELSE 0) ELSE IF a = 7982 THEN (IF
            b = 837 THEN 8094 ELSE 0) ELSE IF a = 7983 THEN (IF b = 837 THEN
            8095 ELSE 0) ELSE 0 ELSE IF a = 7984 THEN (IF b = 768 THEN 7986
            ELSE IF b = 769 THEN 7988 ELSE IF b = 834 THEN 7990 ELSE 0) ELSE
            IF a = 7985 THEN (IF b = 768 THEN 7987 ELSE IF b = 769 THEN 7989
            ELSE IF b = 834 THEN 7991 ELSE 0) ELSE IF a = 7992 THEN (IF b =
            768 THEN 7994 ELSE IF b = 769 THEN 7996 ELSE IF b = 834 THEN 7998
            ELSE 0) ELSE 0 ELSE IF a < 8017 THEN IF a < 8008 THEN IF a = 7993
            THEN (IF b = 768 THEN 7995 ELSE IF b = 769 THEN 7997 ELSE IF b =
            834 THEN 7999 ELSE 0) ELSE IF a = 8000 THEN (IF b = 768 THEN 8002
            ELSE IF b = 769 THEN 8004 ELSE 0) ELSE IF a = 8001 THEN (IF b =
            768 THEN 8003 ELSE IF b = 769 THEN 8005 ELSE 0) ELSE 0 ELSE IF a =
            8008 THEN (IF b = 768 THEN 8010 ELSE IF b = 769 THEN 8012 ELSE 0)
            ELSE IF a = 8009 THEN (IF b = 768 THEN 8011 ELSE IF b = 769 THEN
            8013 ELSE 0) ELSE IF a = 8016 THEN (IF b = 768 THEN 8018 ELSE IF b
            = 769 THEN 8020 ELSE IF b = 834 THEN 8022 ELSE 0) ELSE 0 ELSE IF a
            < 8033 THEN IF a = 8017 THEN (IF b = 768 THEN 8019 ELSE IF b = 769
            THEN 8021 ELSE IF b = 834 THEN 8023 ELSE 0) ELSE IF a = 8025 THEN
            (IF b = 768 THEN 8027 ELSE IF b = 769 THEN 8029 ELSE IF b = 834
            THEN 8031 ELSE 0) ELSE IF a = 8032 THEN (IF b = 768 THEN 8034 ELSE
            IF b = 769 THEN 8036 ELSE IF b = 834 THEN 8038 ELSE IF b = 837
            THEN 8096 ELSE 0) ELSE 0 ELSE IF a = 8033 THEN (IF b = 768 THEN
            8035 ELSE IF b = 769 THEN 8037 ELSE IF b = 834 THEN 8039 ELSE IF b
            = 837 THEN 8097 ELSE 0) ELSE IF a = 8034 THEN (IF b = 837 THEN
            8098 ELSE 0) ELSE IF a = 8035 THEN (IF b = 837 THEN 8099 ELSE 0)
            ELSE 0 ELSE IF a < 8048 THEN IF a < 8042 THEN IF a < 8039 THEN IF
            a = 8036 THEN (IF b = 837 THEN 8100 ELSE 0) ELSE IF a = 8037 THEN
            (IF b = 837 THEN 8101 ELSE 0) ELSE IF a = 8038 THEN (IF b = 837
            THEN 8102 ELSE 0) ELSE 0 ELSE IF a = 8039 THEN (IF b = 837 THEN
            8103 ELSE 0) ELSE IF a = 8040 THEN (IF b = 768 THEN 8042 ELSE IF b
            = 769 THEN 8044 ELSE IF b = 834 THEN 8046 ELSE IF b = 837 THEN
            8104 ELSE 0) ELSE IF a = 8041 THEN (IF b = 768 THEN 8043 ELSE IF b
            = 769 THEN 8045 ELSE IF b = 834 THEN 8047 ELSE IF b = 837 THEN
            8105 ELSE 0) ELSE 0 ELSE IF a < 8045 THEN IF a = 8042 THEN (IF b =
            837 THEN 8106 ELSE 0) ELSE IF a = 8043 THEN (IF b = 837 THEN 8107
            ELSE 0) ELSE IF a = 8044 THEN (IF b = 837 THEN 8108 ELSE 0) ELSE 0
            ELSE IF a = 8045 THEN (IF b = 837 THEN 8109 ELSE 0) ELSE IF a =
            8046 THEN (IF b = 837 THEN 8110 ELSE 0) ELSE IF a = 8047 THEN (IF
            b = 837 THEN 8111 ELSE 0) ELSE 0 ELSE IF a < 8182 THEN IF a < 8118
            THEN IF a = 8048 THEN (IF b = 837 THEN 8114 ELSE 0) ELSE IF a =
            8052 THEN (IF b = 837 THEN 8130 ELSE 0) ELSE IF a = 8060 THEN (IF
            b = 837 THEN 8178 ELSE 0) ELSE 0 ELSE IF a = 8118 THEN (IF b = 837
            THEN 8119 ELSE 0) ELSE IF a = 8127 THEN (IF b = 768 THEN 8141 ELSE
            IF b = 769 THEN 8142 ELSE IF b = 834 THEN 8143 ELSE 0) ELSE IF a =
            8134 THEN (IF b = 837 THEN 8135 ELSE 0) ELSE 0 ELSE IF a < 8594
            THEN IF a = 8182 THEN (IF b = 837 THEN 8183 ELSE 0) ELSE IF a =
            8190 THEN (IF b = 768 THEN 8157 ELSE IF b = 769 THEN 8158 ELSE IF
            b = 834 THEN 8159 ELSE 0) ELSE IF a = 8592 THEN (IF b = 824 THEN
            8602 ELSE 0) ELSE 0 ELSE IF a = 8594 THEN (IF b = 824 THEN 8603
            ELSE 0) ELSE IF a = 8596 THEN (IF b = 824 THEN 8622 ELSE 0) ELSE
            IF a = 8656 THEN (IF b = 824 THEN 8653 ELSE 0) ELSE 0 ELSE IF a <
            12381 THEN IF a < 8834 THEN IF a < 8781 THEN IF a < 8739 THEN IF a
            < 8707 THEN IF a = 8658 THEN (IF b = 824 THEN 8655 ELSE 0) ELSE IF
            a = 8660 THEN (IF b = 824 THEN 8654 ELSE 0) ELSE 0 ELSE IF a =
            8707 THEN (IF b = 824 THEN 8708 ELSE 0) ELSE IF a = 8712 THEN (IF
            b = 824 THEN 8713 ELSE 0) ELSE IF a = 8715 THEN (IF b = 824 THEN
            8716 ELSE 0) ELSE 0 ELSE IF a < 8771 THEN IF a = 8739 THEN (IF b =
            824 THEN 8740 ELSE 0) ELSE IF a = 8741 THEN (IF b = 824 THEN 8742
            ELSE 0) ELSE IF a = 8764 THEN (IF b = 824 THEN 8769 ELSE 0) ELSE 0
            ELSE IF a = 8771 THEN (IF b = 824 THEN 8772 ELSE 0) ELSE IF a =
            8773 THEN (IF b = 824 THEN 8775 ELSE 0) ELSE IF a = 8776 THEN (IF
            b = 824 THEN 8777 ELSE 0) ELSE 0 ELSE IF a < 8822 THEN IF a < 8805
            THEN IF a = 8781 THEN (IF b = 824 THEN 8813 ELSE 0) ELSE IF a =
            8801 THEN (IF b = 824 THEN 8802 ELSE 0) ELSE IF a = 8804 THEN (IF
            b = 824 THEN 8816 ELSE 0) ELSE 0 ELSE IF a = 8805 THEN (IF b = 824
            THEN 8817 ELSE 0) ELSE IF a = 8818 THEN (IF b = 824 THEN 8820 ELSE
            0) ELSE IF a = 8819 THEN (IF b = 824 THEN 8821 ELSE 0) ELSE 0 ELSE
            IF a < 8827 THEN IF a = 8822 THEN (IF b = 824 THEN 8824 ELSE 0)
            ELSE IF a = 8823 THEN (IF b = 824 THEN 8825 ELSE 0) ELSE IF a =
            8826 THEN (IF b = 824 THEN 8832 ELSE 0) ELSE 0 ELSE IF a = 8827
            THEN (IF b = 824 THEN 8833 ELSE 0) ELSE IF a = 8828 THEN (IF b =
            824 THEN 8928 ELSE 0) ELSE IF a = 8829 THEN (IF b = 824 THEN 8929
            ELSE 0) ELSE 0 ELSE IF a < 8884 THEN IF a < 8866 THEN IF a < 8839
            THEN IF a = 8834 THEN (IF b = 824 THEN 8836 ELSE 0) ELSE IF a =
            8835 THEN (IF b = 824 THEN 8837 ELSE 0) ELSE IF a = 8838 THEN (IF
            b = 824 THEN 8840 ELSE 0) ELSE 0 ELSE IF a = 8839 THEN (IF b = 824
            THEN 8841 ELSE 0) ELSE IF a = 8849 THEN (IF b = 824 THEN 8930 ELSE
            0) ELSE IF a = 8850 THEN (IF b = 824 THEN 8931 ELSE 0) ELSE 0 ELSE
            IF a < 8875 THEN IF a = 8866 THEN (IF b = 824 THEN 8876 ELSE 0)
            ELSE IF a = 8872 THEN (IF b = 824 THEN 8877 ELSE 0) ELSE IF a =
            8873 THEN (IF b = 824 THEN 8878 ELSE 0) ELSE 0 ELSE IF a = 8875
            THEN (IF b = 824 THEN 8879 ELSE 0) ELSE IF a = 8882 THEN (IF b =
            824 THEN 8938 ELSE 0) ELSE IF a = 8883 THEN (IF b = 824 THEN 8939
            ELSE 0) ELSE 0 ELSE IF a < 12369 THEN IF a < 12363 THEN IF a =
            8884 THEN (IF b = 824 THEN 8940 ELSE 0) ELSE IF a = 8885 THEN (IF
            b = 824 THEN 8941 ELSE 0) ELSE IF a = 12358 THEN (IF b = 12441
            THEN 12436 ELSE 0) ELSE 0 ELSE IF a = 12363 THEN (IF b = 12441
            THEN 12364 ELSE 0) ELSE IF a = 12365 THEN (IF b = 12441 THEN 12366
            ELSE 0) ELSE IF a = 12367 THEN (IF b = 12441 THEN 12368 ELSE 0)
            ELSE 0 ELSE IF a < 12375 THEN IF a = 12369 THEN (IF b = 12441 THEN
            12370 ELSE 0) ELSE IF a = 12371 THEN (IF b = 12441 THEN 12372 ELSE
            0) ELSE IF a = 12373 THEN (IF b = 12441 THEN 12374 ELSE 0) ELSE 0
            ELSE IF a = 12375 THEN (IF b = 12441 THEN 12376 ELSE 0) ELSE IF a
            = 12377 THEN (IF b = 12441 THEN 12378 ELSE 0) ELSE IF a = 12379
            THEN (IF b = 12441 THEN 12380 ELSE 0) ELSE 0 ELSE IF a < 12481
            THEN IF a < 12454 THEN IF a < 12399 THEN IF a < 12388 THEN IF a =
            12381 THEN (IF b = 12441 THEN 12382 ELSE 0) ELSE IF a = 12383 THEN
            (IF b = 12441 THEN 12384 ELSE 0) ELSE IF a = 12385 THEN (IF b =
            12441 THEN 12386 ELSE 0) ELSE 0 ELSE IF a = 12388 THEN (IF b =
            12441 THEN 12389 ELSE 0) ELSE IF a = 12390 THEN (IF b = 12441 THEN
            12391 ELSE 0) ELSE IF a = 12392 THEN (IF b = 12441 THEN 12393 ELSE
            0) ELSE 0 ELSE IF a < 12408 THEN IF a = 12399 THEN (IF b = 12441
            THEN 12400 ELSE IF b = 12442 THEN 12401 ELSE 0) ELSE IF a = 12402
            THEN (IF b = 12441 THEN 12403 ELSE IF b = 12442 THEN 12404 ELSE 0)
            ELSE IF a = 12405 THEN (IF b = 12441 THEN 12406 ELSE IF b = 12442
            THEN 12407 ELSE 0) ELSE 0 ELSE IF a = 12408 THEN (IF b = 12441
            THEN 12409 ELSE IF b = 12442 THEN 12410 ELSE 0) ELSE IF a = 12411
            THEN (IF b = 12441 THEN 12412 ELSE IF b = 12442 THEN 12413 ELSE 0)
            ELSE IF a = 12445 THEN (IF b = 12441 THEN 12446 ELSE 0) ELSE 0
            ELSE IF a < 12469 THEN IF a < 12463 THEN IF a = 12454 THEN (IF b =
            12441 THEN 12532 ELSE 0) ELSE IF a = 12459 THEN (IF b = 12441 THEN
            12460 ELSE 0) ELSE IF a = 12461 THEN (IF b = 12441 THEN 12462 ELSE
            0) ELSE 0 ELSE IF a = 12463 THEN (IF b = 12441 THEN 12464 ELSE 0)
            ELSE IF a = 12465 THEN (IF b = 12441 THEN 12466 ELSE 0) ELSE IF a
            = 12467 THEN (IF b = 12441 THEN 12468 ELSE 0) ELSE 0 ELSE IF a <
            12475 THEN IF a = 12469 THEN (IF b = 12441 THEN 12470 ELSE 0) ELSE
            IF a = 12471 THEN (IF b = 12441 THEN 12472 ELSE 0) ELSE IF a =
            12473 THEN (IF b = 12441 THEN 12474 ELSE 0) ELSE 0 ELSE IF a =
            12475 THEN (IF b = 12441 THEN 12476 ELSE 0) ELSE IF a = 12477 THEN
            (IF b = 12441 THEN 12478 ELSE 0) ELSE IF a = 12479 THEN (IF b =
            12441 THEN 12480 ELSE 0) ELSE 0 ELSE IF a < 12530 THEN IF a <
            12501 THEN IF a < 12488 THEN IF a = 12481 THEN (IF b = 12441 THEN
            12482 ELSE 0) ELSE IF a = 12484 THEN (IF b = 12441 THEN 12485 ELSE
            0) ELSE IF a = 12486 THEN (IF b = 12441 THEN 12487 ELSE 0) ELSE 0
            ELSE IF a = 12488 THEN (IF b = 12441 THEN 12489 ELSE 0) ELSE IF a
            = 12495 THEN (IF b = 12441 THEN 12496 ELSE IF b = 12442 THEN 12497
            ELSE 0) ELSE IF a = 12498 THEN (IF b = 12441 THEN 12499 ELSE IF b
            = 12442 THEN 12500 ELSE 0) ELSE 0 ELSE IF a < 12527 THEN IF a =
            12501 THEN (IF b = 12441 THEN 12502 ELSE IF b = 12442 THEN 12503
            ELSE 0) ELSE IF a = 12504 THEN (IF b = 12441 THEN 12505 ELSE IF b
            = 12442 THEN 12506 ELSE 0) ELSE IF a = 12507 THEN (IF b = 12441
            THEN 12508 ELSE IF b = 12442 THEN 12509 ELSE 0) ELSE 0 ELSE IF a =
            12527 THEN (IF b = 12441 THEN 12535 ELSE 0) ELSE IF a = 12528 THEN
            (IF b = 12441 THEN 12536 ELSE 0) ELSE IF a = 12529 THEN (IF b =
            12441 THEN 12537 ELSE 0) ELSE 0 ELSE IF a < 69938 THEN IF a <
            69787 THEN IF a = 12530 THEN (IF b = 12441 THEN 12538 ELSE 0) ELSE
            IF a = 12541 THEN (IF b = 12441 THEN 12542 ELSE 0) ELSE IF a =
            69785 THEN (IF b = 69818 THEN 69786 ELSE 0) ELSE 0 ELSE IF a =
            69787 THEN (IF b = 69818 THEN 69788 ELSE 0) ELSE IF a = 69797 THEN
            (IF b = 69818 THEN 69803 ELSE 0) ELSE IF a = 69937 THEN (IF b =
            69927 THEN 69934 ELSE 0) ELSE 0 ELSE IF a < 71096 THEN IF a =
            69938 THEN (IF b = 69927 THEN 69935 ELSE 0) ELSE IF a = 70471 THEN
            (IF b = 70462 THEN 70475 ELSE IF b = 70487 THEN 70476 ELSE 0) ELSE
            IF a = 70841 THEN (IF b = 70832 THEN 70844 ELSE IF b = 70842 THEN
            70843 ELSE IF b = 70845 THEN 70846 ELSE 0) ELSE 0 ELSE IF a =
            71096 THEN (IF b = 71087 THEN 71098 ELSE 0) ELSE IF a = 71097 THEN
            (IF b = 71087 THEN 71099 ELSE 0) ELSE IF a = 71989 THEN (IF b =
            71984 THEN 71992 ELSE 0) ELSE 0
        \* the primary composite of the pair a, b; 0 if there is none.  Hangul:
        \* a leading and a vowel jamo make an LV syllable, an LV syllable and a
        \* trailing jamo an LVT syllable
        Composite(a, b) ==
            IF a \in 4352..4370 /\ b \in 4449..4469
            THEN 44032 + ((a - 4352) * 21 + (b - 4449)) * 28
            ELSE IF a \in 44032..55203 /\ (a - 44032) % 28 = 0 /\ b \in 4520..4546
            THEN a + (b - 4519)
            ELSE Composition(a, b)
        \* canonical composition of rest onto res, whose last starter is
        \* res[starter] (0: none yet): a character is combined with the last
        \* starter unless a character between them has a class at least its own
        RECURSIVE CanonicalCompose(_, _, _)
        CanonicalCompose(res, starter, rest) ==
            IF rest = <<>> THEN res
            ELSE LET ch == Head(rest)
                     blocked == starter < Len(res)
                                /\ combining(res[Len(res)]) >= combining(ch)
                     comp == IF starter > 0 /\ ~blocked
                             THEN Composite(res[starter], ch) ELSE 0
                 IN  IF comp # 0
                     THEN CanonicalCompose([res EXCEPT ![starter] = comp], starter,
                                           Tail(rest))
                     ELSE CanonicalCompose(Append(res, ch),
                              IF combining(ch) = 0 THEN Len(res) + 1 ELSE starter,
                              Tail(rest))
        \* the characters of class 0 that a composition takes as its second:
        \* at any other character of class 0 a stretch begins that is
        \* ordered and composed on its own
        Second(c) ==
            \/ c \in 4449..4469 \/ c \in 4520..4546
            \/ c \in {2494, 2519, 2878, 2902, 2903, 3006, 3031, 3266, 3285, 3286,
                      3390, 3415, 3535, 3551, 4142, 6965, 69927, 70462, 70487,
                      70832, 70842, 70845, 71087, 71984}
        Begins(c) == combining(c) = 0 /\ ~Second(c)
        RECURSIVE StretchEnd(_, _)
        StretchEnd(d, j) ==
            IF j > Len(d) \/ Begins(d[j]) THEN j - 1 ELSE StretchEnd(d, j + 1)
    IN  Let(Flatten([i \in 1..Len(s) |-> NFKD(s[i])]), LAMBDA d :
            Flatten([i \in 1..Len(d) |->
                IF i = 1 \/ Begins(d[i])
                THEN CanonicalCompose(<<>>, 0,
                         CanonicalOrder(SubSeq(d, i, StretchEnd(d, i + 1))))
                ELSE <<>>]))

\* normalize_text: NFKC, then drop U+200F and U+200E
normalize_text(t) == SelectSeq(NFKC(t), LAMBDA c : c # 8207 /\ c # 8206)

fix_rtl_value(v0) ==
    IF v0 = <<>> THEN <<>>
    ELSE
    LET v == Strip(v0)
    IN  IF Contains(v, 64) \/ \E i \in 1..Len(v) : IsLatin(v[i]) THEN v
        ELSE IF ar_count(v) >= 3 /\ ar_count(v) > lat_count(v) THEN Reverse(v)
        ELSE v

\* r"(\d[\d,]*)(?:\.\d+)?"
AMOUNT_RE ==
    Cat(<<Grp(1, Cat(<<ClsD, Star(Cls(FALSE, {44}, {}, {"d"}))>>)),
    Opt(Cat(<<Lit(<<46>>), Plus(ClsD)>>))>>)


clean_amount_to_int(s) ==
    IF s = <<>> THEN <<>>
    ELSE Let(Search(AMOUNT_RE, s), LAMBDA m :
             IF ~m.ok THEN <<>> ELSE RemoveChar(Group(m, s, 1), 44))

normalize_reversed_short_number(token0) ==
    LET token == Strip(token0)
        \* re.fullmatch(r"0\d", token)
        zero_digit == Len(token) = 2 /\ token[1] = 48 /\ IsDigit(token[2])
    IN  IF zero_digit THEN Reverse(token) ELSE token

\* normalize_amount_token without the reversal of '00.' tokens: the variant
\* C10 is checked against
amount_token_unreversed(token) ==
    IF token = <<>> THEN <<>> ELSE clean_amount_to_int(Strip(token))

normalize_amount_token(token) ==
    IF token = <<>> THEN <<>>
    ELSE
    LET t == Strip(token)
        \* t.startswith("00.")
        zeros == StartsWith(t, <<48, 48, 46>>)
        comma == Contains(t, 44)
        r == IF zeros /\ comma THEN Reverse(t)
             ELSE IF zeros /\ ~comma THEN Reverse(t)
             ELSE t
    IN  clean_amount_to_int(r)

(***************************************************************************)
(* RTL normalization (src/pdf_contracts.py)                                *)
(***************************************************************************)

\* the position of the first c in s, 0 if there is none
IndexOf(s, c) ==
    IF Contains(s, c) THEN CHOOSE i \in 1..Len(s) :
                                s[i] = c /\ \A j \in 1..(i - 1) : s[j] # c
    ELSE 0

\* label + ": " + value
LabelValue(label, value) == label \o <<58, 32>> \o value

smart_normalize_line(line0) ==
    LET l1 == Strip(line0)
        \* a lone leading colon is dropped
        l2 == IF l1 # <<>> /\ l1[1] = 58 /\ Count(l1, LAMBDA c : c = 58) = 1
              THEN Strip(Tail(l1)) ELSE l1
        k == IndexOf(l2, 58)
        left == Strip(SubSeq(l2, 1, k - 1))
        right == Strip(SubSeq(l2, k + 1, Len(l2)))
    IN  IF l1 = <<>> THEN <<>>
        ELSE IF k = 0 THEN l2
        \* right is a reversed Arabic label
        ELSE IF ar_count(right) > 0 /\ lat_count(right) = 0 /\ dig_count(right) < 3
        THEN LabelValue(Strip(Reverse(right)), Strip(left))
        \* left is a reversed Arabic label
        ELSE IF ar_count(left) > 0 /\ lat_count(left) = 0 /\ dig_count(left) < 3
        THEN LabelValue(Strip(Reverse(left)), Strip(right))
        ELSE l2

maybe_reverse_sentence(line) ==
    LET s == Strip(line)
    IN  IF s = <<>> THEN <<>>
        ELSE IF Contains(s, 58) THEN s
        ELSE IF ar_count(s) >= 10 /\ ar_count(s) > lat_count(s) THEN Reverse(s)
        ELSE s

\* the position of the first line boundary of s at or after position i, 0 if
\* there is none
NextBreak(s, i) ==
    LET bs == {j \in i..Len(s) : IsLineBreak(s[j])}
    IN  IF bs = {} THEN 0 ELSE CHOOSE x \in bs : \A y \in bs : x <= y

RECURSIVE SplitLinesFrom(_, _)
\* the lines of s from position i on
SplitLinesFrom(s, i) ==
    IF i > Len(s) THEN <<>>
    ELSE LET b == NextBreak(s, i)
         IN  IF b = 0 THEN <<SubSeq(s, i, Len(s))>>
             ELSE <<SubSeq(s, i, b - 1)>> \o SplitLinesFrom(
                      s,
                      \* "\r\n" is one boundary
                      IF s[b] = 13 /\ b < Len(s) /\ s[b + 1] = 10 THEN b + 2
                      ELSE b + 1)

\* str.splitlines()
SplitLines(s) == SplitLinesFrom(s, 1)

RECURSIVE JoinLines(_)
\* "\n".join(lines)
JoinLines(lines) ==
    IF lines = <<>> THEN <<>>
    ELSE IF Len(lines) = 1 THEN lines[1]
    ELSE lines[1] \o <<10>> \o JoinLines(Tail(lines))

\* one line of normalize_contract_text's loop
NormalizeLine(ln) == maybe_reverse_sentence(smart_normalize_line(normalize_text(ln)))

normalize_contract_text(raw_text) ==
    LET src == SplitLines(raw_text)
        lines == [i \in 1..Len(src) |-> NormalizeLine(src[i])]
    IN  JoinLines(SelectSeq(lines, LAMBDA ln : ln # <<>>))

(***************************************************************************)
(* Getters (src/pdf_contracts.py)                                          *)
(***************************************************************************)

\* rf"{re.escape(label)}\s*:\s*([^\n]+)"
LabelRe(label) ==
    Cat(<<Lit(label), Star(ClsS), Lit(<<58>>), Star(ClsS), Grp(1, Plus(Dot))>>)

get_value_after_label(text, label) ==
    Let(Search(LabelRe(label), text), LAMBDA m :
        IF m.ok THEN Strip(Group(m, text, 1)) ELSE <<>>)

RECURSIVE get_bi(_, _)
get_bi(text, labels) ==
    IF labels = <<>> THEN <<>>
    ELSE Let(get_value_after_label(text, Head(labels)), LAMBDA v :
             IF v # <<>> THEN v ELSE get_bi(text, Tail(labels)))

\* keyword in ln
HasSubstring(ln, keyword) ==
    \E i \in 1..(Len(ln) + 1) : StartsWithAt(ln, keyword, i)

RECURSIVE FirstLineWith(_, _)
FirstLineWith(lines, keyword) ==
    IF lines = <<>> THEN <<>>
    ELSE IF HasSubstring(Head(lines), keyword) THEN Strip(Head(lines))
    ELSE FirstLineWith(Tail(lines), keyword)

find_line_containing(text, keyword) == FirstLineWith(SplitLines(text), keyword)

RECURSIVE LocalNumber(_)
\* the first 10-digit run starting "05", or "0" + the first 9-digit run
\* starting "5", whichever run comes first
LocalNumber(groups) ==
    IF groups = <<>> THEN <<>>
    ELSE LET g == Head(groups)
         IN  IF Len(g) = 10 /\ StartsWith(g, <<48, 53>>) THEN g
             ELSE IF Len(g) = 9 /\ StartsWith(g, <<53>>) THEN <<48>> \o g
             ELSE LocalNumber(Tail(groups))

\* normalize_mobile_from_line without the rewrite of a leading "9660": the
\* variant C11 is checked against
mobile_without_rewrite(line) ==
    Let(FindAll(DIGITS_RE, line), LAMBDA groups :
        IF line = <<>> \/ groups = <<>> THEN <<>>
        ELSE IF (\E i \in 1..Len(groups) : StartsWith(groups[i], <<57, 54, 54>>))
                /\ LocalNumber(groups) # <<>>
        THEN <<57, 54, 54>> \o Tail(LocalNumber(groups))
        ELSE Flatten(groups))

normalize_mobile_from_line(line) ==
    Let(FindAll(DIGITS_RE, line), LAMBDA groups :
        LET has_966 == \E i \in 1..Len(groups) : StartsWith(groups[i], <<57, 54, 54>>)
            local == LocalNumber(groups)
            joined == Flatten(groups)
        IN  IF line = <<>> \/ groups = <<>> THEN <<>>
            ELSE IF has_966 /\ local # <<>> THEN <<57, 54, 54>> \o Tail(local)
            ELSE IF StartsWith(joined, <<57, 54, 54, 48>>)
            THEN <<57, 54, 54>> \o SubSeq(joined, 5, Len(joined))
            ELSE joined)

(***************************************************************************)
(* Schema and parser (src/pdf_contracts.py)                                *)
(***************************************************************************)

\* HEADERS: the 40 column names, in order
HEADERS ==
    <<
    \* 1: رقم العقد
      <<1585, 1602, 1605, 32, 1575, 1604, 1593, 1602, 1583>>,
    \* 2: تاريخ العقد
      <<1578, 1575, 1585, 1610, 1582, 32, 1575, 1604, 1593, 1602, 1583>>,
    \* 3: شركة/مؤسسة
      <<1588, 1585, 1603, 1577, 47, 1605, 1572, 1587, 1587, 1577>>,
    \* 4: الرقم الوطني الموحد
      <<1575, 1604, 1585, 1602, 1605, 32, 1575, 1604, 1608, 1591, 1606, 1610,
      32, 1575, 1604, 1605, 1608, 1581, 1583>>,
    \* 5: رقم المنشأة
      <<1585, 1602, 1605, 32, 1575, 1604, 1605, 1606, 1588, 1571, 1577>>,
    \* 6: السجل التجاري
      <<1575, 1604, 1587, 1580, 1604, 32, 1575, 1604, 1578, 1580, 1575, 1585,
      1610>>,
    \* 7: عنوان الشركة
      <<1593, 1606, 1608, 1575, 1606, 32, 1575, 1604, 1588, 1585, 1603,
      1577>>,
    \* 8: مكان العمل
      <<1605, 1603, 1575, 1606, 32, 1575, 1604, 1593, 1605, 1604>>,
    \* 9: بريد الشركة
      <<1576, 1585, 1610, 1583, 32, 1575, 1604, 1588, 1585, 1603, 1577>>,
    \* 10: المسؤول الموقع
      <<1575, 1604, 1605, 1587, 1572, 1608, 1604, 32, 1575, 1604, 1605, 1608,
      1602, 1593>>,
    \* 11: الصفة
      <<1575, 1604, 1589, 1601, 1577>>,
    \* 12: اسم الموظف
      <<1575, 1587, 1605, 32, 1575, 1604, 1605, 1608, 1592, 1601>>,
    \* 13: رقم الهوية
      <<1585, 1602, 1605, 32, 1575, 1604, 1607, 1608, 1610, 1577>>,
    \* 14: نوع الهوية
      <<1606, 1608, 1593, 32, 1575, 1604, 1607, 1608, 1610, 1577>>,
    \* 15: تاريخ الميلاد
      <<1578, 1575, 1585, 1610, 1582, 32, 1575, 1604, 1605, 1610, 1604, 1575,
      1583>>,
    \* 16: تاريخ انتهاء الهوية
      <<1578, 1575, 1585, 1610, 1582, 32, 1575, 1606, 1578, 1607, 1575, 1569,
      32, 1575, 1604, 1607, 1608, 1610, 1577>>,
    \* 17: الجنسية
      <<1575, 1604, 1580, 1606, 1587, 1610, 1577>>,
    \* 18: الجنس
      <<1575, 1604, 1580, 1606, 1587>>,
    \* 19: الديانة
      <<1575, 1604, 1583, 1610, 1575, 1606, 1577>>,
    \* 20: الحالة الاجتماعية
      <<1575, 1604, 1581, 1575, 1604, 1577, 32, 1575, 1604, 1575, 1580, 1578,
      1605, 1575, 1593, 1610, 1577>>,
    \* 21: المؤهل العلمي
      <<1575, 1604, 1605, 1572, 1607, 1604, 32, 1575, 1604, 1593, 1604, 1605,
      1610>>,
    \* 22: التخصص
      <<1575, 1604, 1578, 1582, 1589, 1589>>,
    \* 23: المهنة
      <<1575, 1604, 1605, 1607, 1606, 1577>>,
    \* 24: الرقم الوظيفي
      <<1575, 1604, 1585, 1602, 1605, 32, 1575, 1604, 1608, 1592, 1610, 1601,
      1610>>,
    \* 25: رقم الآيبان
      <<1585, 1602, 1605, 32, 1575, 1604, 1570, 1610, 1576, 1575, 1606>>,
    \* 26: اسم البنك
      <<1575, 1587, 1605, 32, 1575, 1604, 1576, 1606, 1603>>,
    \* 27: بريد الموظف
      <<1576, 1585, 1610, 1583, 32, 1575, 1604, 1605, 1608, 1592, 1601>>,
    \* 28: رقم الجوال
      <<1585, 1602, 1605, 32, 1575, 1604, 1580, 1608, 1575, 1604>>,
    \* 29: بدء العقد
      <<1576, 1583, 1569, 32, 1575, 1604, 1593, 1602, 1583>>,
    \* 30: انتهاء العقد
      <<1575, 1606, 1578, 1607, 1575, 1569, 32, 1575, 1604, 1593, 1602,
      1583>>,
    \* 31: تاريخ المباشرة الفعلية
      <<1578, 1575, 1585, 1610, 1582, 32, 1575, 1604, 1605, 1576, 1575, 1588,
      1585, 1577, 32, 1575, 1604, 1601, 1593, 1604, 1610, 1577>>,
    \* 32: مدة العقد
      <<1605, 1583, 1577, 32, 1575, 1604, 1593, 1602, 1583>>,
    \* 33: فترة التجربة
      <<1601, 1578, 1585, 1577, 32, 1575, 1604, 1578, 1580, 1585, 1576,
      1577>>,
    \* 34: أيام العمل الأسبوعية
      <<1571, 1610, 1575, 1605, 32, 1575, 1604, 1593, 1605, 1604, 32, 1575,
      1604, 1571, 1587, 1576, 1608, 1593, 1610, 1577>>,
    \* 35: ساعات العمل اليومية
      <<1587, 1575, 1593, 1575, 1578, 32, 1575, 1604, 1593, 1605, 1604, 32,
      1575, 1604, 1610, 1608, 1605, 1610, 1577>>,
    \* 36: الراتب الأساسي
      <<1575, 1604, 1585, 1575, 1578, 1576, 32, 1575, 1604, 1571, 1587, 1575,
      1587, 1610>>,
    \* 37: بدل السكن
      <<1576, 1583, 1604, 32, 1575, 1604, 1587, 1603, 1606>>,
    \* 38: الإجازة السنوية
      <<1575, 1604, 1573, 1580, 1575, 1586, 1577, 32, 1575, 1604, 1587, 1606,
      1608, 1610, 1577>>,
    \* 39: أجر الساعة الإضافية
      <<1571, 1580, 1585, 32, 1575, 1604, 1587, 1575, 1593, 1577, 32, 1575,
      1604, 1573, 1590, 1575, 1601, 1610, 1577>>,
    \* 40: التعويض عند الفسخ بدون سبب
      <<1575, 1604, 1578, 1593, 1608, 1610, 1590, 32, 1593, 1606, 1583, 32,
      1575, 1604, 1601, 1587, 1582, 32, 1576, 1583, 1608, 1606, 32, 1587,
      1576, 1576>>
    >>

\* the elements of a list
Range(s) == {s[i] : i \in 1..Len(s)}

\* EMAIL_RE
EMAIL_RE ==
    Cat(<<Plus(Cls(FALSE, {37, 43, 45, 46, 95}, {<<65, 90>>, <<97, 122>>,
    <<48, 57>>}, {})), Lit(<<64>>), Plus(Cls(FALSE, {45, 46}, {<<65, 90>>,
    <<97, 122>>, <<48, 57>>}, {})), Lit(<<46>>), Rep(Cls(FALSE, {}, {<<65,
    90>>, <<97, 122>>}, {}), 2, -1, TRUE)>>)

\* the patterns parse_contract searches for, as written in its re.search calls
RE ==
    [
      \* r"رقم العقد\s*:\s*(\d+)"
      CONTRACT_NO |->
        Cat(<<Lit(<<1585, 1602, 1605, 32, 1575, 1604, 1593, 1602, 1583>>),
        Star(ClsS), Lit(<<58>>), Star(ClsS), Grp(1, Plus(ClsD))>>),
      \* r"في يوم.*?\(?\s*([0-9]{2,4}[-/][0-9]{1,2}[-/][0-9]{2,4})\s*\)?"
      DATE_ON_DAY |->
        Cat(<<Lit(<<1601, 1610, 32, 1610, 1608, 1605>>), LazyStar(Dot),
        Opt(Lit(<<40>>)), Star(ClsS), Grp(1, Cat(<<Rep(Cls09, 2, 4, TRUE),
        ClsSep, Rep(Cls09, 1, 2, TRUE), ClsSep, Rep(Cls09, 2, 4, TRUE)>>)),
        Star(ClsS), Opt(Lit(<<41>>))>>),
      \* r"\(\s*([0-9]{4}[-/][0-9]{2}[-/][0-9]{2})\s*\)"
      DATE_PAREN |->
        Cat(<<Lit(<<40>>), Star(ClsS), Grp(1, Cat(<<Rep(Cls09, 4, 4, TRUE),
        ClsSep, Rep(Cls09, 2, 2, TRUE), ClsSep, Rep(Cls09, 2, 2, TRUE)>>)),
        Star(ClsS), Lit(<<41>>)>>),
      \* r"تم.*?بتاريخ\s*([0-9]{2,4}[-/][0-9]{1,2}[-/][0-9]{2,4})"
      DATE_DONE |->
        Cat(<<Lit(<<1578, 1605>>), LazyStar(Dot), Lit(<<1576, 1578, 1575, 1585,
        1610, 1582>>), Star(ClsS), Grp(1, Cat(<<Rep(Cls09, 2, 4, TRUE), ClsSep,
        Rep(Cls09, 1, 2, TRUE), ClsSep, Rep(Cls09, 2, 4, TRUE)>>))>>),
      \* r"\s*بصفته\s*"
      AS_TITLE |->
        Cat(<<Star(ClsS), Lit(<<1576, 1589, 1601, 1578, 1607>>), Star(ClsS)>>),
      \* r"مدة هذا العقد\s+(\d+)\s*(سنة|سنوات|شهر|أشهر)"
      DURATION |->
        Cat(<<Lit(<<1605, 1583, 1577, 32, 1607, 1584, 1575, 32, 1575, 1604, 1593,
        1602, 1583>>), Plus(ClsS), Grp(1, Plus(ClsD)), Star(ClsS), Grp(2,
        Alt(<<Lit(<<1587, 1606, 1577>>), Lit(<<1587, 1606, 1608, 1575, 1578>>),
        Lit(<<1588, 1607, 1585>>), Lit(<<1571, 1588, 1607, 1585>>)>>))>>),
      \* r"يبدأ\s*.*?من\s*تاريخ\s*([0-9]{2,4}[-/][0-9]{1,2}[-/][0-9]{2,4}).*?وينتهي\s*.*?في\s*[,،]?\s*([0-9]{2,4}[-/][0-9]{1,2}[-/][0-9]{2,4})"
      START_END |->
        Cat(<<Lit(<<1610, 1576, 1583, 1571>>), Star(ClsS), LazyStar(Dot),
        Lit(<<1605, 1606>>), Star(ClsS), Lit(<<1578, 1575, 1585, 1610, 1582>>),
        Star(ClsS), Grp(1, Cat(<<Rep(Cls09, 2, 4, TRUE), ClsSep, Rep(Cls09, 1, 2,
        TRUE), ClsSep, Rep(Cls09, 2, 4, TRUE)>>)), LazyStar(Dot), Lit(<<1608,
        1610, 1606, 1578, 1607, 1610>>), Star(ClsS), LazyStar(Dot), Lit(<<1601,
        1610>>), Star(ClsS), Opt(Cls(FALSE, {44, 1548}, {}, {})), Star(ClsS),
        Grp(2, Cat(<<Rep(Cls09, 2, 4, TRUE), ClsSep, Rep(Cls09, 1, 2, TRUE),
        ClsSep, Rep(Cls09, 2, 4, TRUE)>>))>>),
      \* r"يبدأ\s*.*?من\s*تاريخ\s*([0-9]{2,4}[-/][0-9]{1,2}[-/][0-9]{2,4})"
      START |->
        Cat(<<Lit(<<1610, 1576, 1583, 1571>>), Star(ClsS), LazyStar(Dot),
        Lit(<<1605, 1606>>), Star(ClsS), Lit(<<1578, 1575, 1585, 1610, 1582>>),
        Star(ClsS), Grp(1, Cat(<<Rep(Cls09, 2, 4, TRUE), ClsSep, Rep(Cls09, 1, 2,
        TRUE), ClsSep, Rep(Cls09, 2, 4, TRUE)>>))>>),
      \* r"وينتهي\s*.*?في\s*[,،]?\s*([0-9]{2,4}[-/][0-9]{1,2}[-/][0-9]{2,4})"
      END |->
        Cat(<<Lit(<<1608, 1610, 1606, 1578, 1607, 1610>>), Star(ClsS),
        LazyStar(Dot), Lit(<<1601, 1610>>), Star(ClsS), Opt(Cls(FALSE, {44,
        1548}, {}, {})), Star(ClsS), Grp(1, Cat(<<Rep(Cls09, 2, 4, TRUE), ClsSep,
        Rep(Cls09, 1, 2, TRUE), ClsSep, Rep(Cls09, 2, 4, TRUE)>>))>>),
      \* r"تاريخ\s+مباشرة.*?(?:هو|:)?\s*([0-9]{2,4}[-/][0-9]{1,2}[-/][0-9]{2,4})"
      JOINING |->
        Cat(<<Lit(<<1578, 1575, 1585, 1610, 1582>>), Plus(ClsS), Lit(<<1605,
        1576, 1575, 1588, 1585, 1577>>), LazyStar(Dot), Opt(Alt(<<Lit(<<1607,
        1608>>), Lit(<<58>>)>>)), Star(ClsS), Grp(1, Cat(<<Rep(Cls09, 2, 4,
        TRUE), ClsSep, Rep(Cls09, 1, 2, TRUE), ClsSep, Rep(Cls09, 2, 4,
        TRUE)>>))>>),
      \* r"فترة\s+.*?تجربة.*?مدتها\s*(\d+)\s*يوم"
      TRIAL |->
        Cat(<<Lit(<<1601, 1578, 1585, 1577>>), Plus(ClsS), LazyStar(Dot),
        Lit(<<1578, 1580, 1585, 1576, 1577>>), LazyStar(Dot), Lit(<<1605, 1583,
        1578, 1607, 1575>>), Star(ClsS), Grp(1, Plus(ClsD)), Star(ClsS),
        Lit(<<1610, 1608, 1605>>)>>),
      \* r"تحدد\s+أيام\s+العمل.*?ب\s*(\d+)\s*أيام"
      WORK_DAYS |->
        Cat(<<Lit(<<1578, 1581, 1583, 1583>>), Plus(ClsS), Lit(<<1571, 1610,
        1575, 1605>>), Plus(ClsS), Lit(<<1575, 1604, 1593, 1605, 1604>>),
        LazyStar(Dot), Lit(<<1576>>), Star(ClsS), Grp(1, Plus(ClsD)), Star(ClsS),
        Lit(<<1571, 1610, 1575, 1605>>)>>),
      \* r"تحدد\s+ساعات\s+العمل.*?ب\s*(\d+)\s*يومي"
      WORK_HOURS |->
        Cat(<<Lit(<<1578, 1581, 1583, 1583>>), Plus(ClsS), Lit(<<1587, 1575,
        1593, 1575, 1578>>), Plus(ClsS), Lit(<<1575, 1604, 1593, 1605, 1604>>),
        LazyStar(Dot), Lit(<<1576>>), Star(ClsS), Grp(1, Plus(ClsD)), Star(ClsS),
        Lit(<<1610, 1608, 1605, 1610>>)>>),
      \* r"(?:٪|%)\s*([0-9]{1,3})"
      OVERTIME |->
        Cat(<<Cls(FALSE, {37, 1642}, {}, {}), Star(ClsS), Grp(1, Rep(Cls09, 1, 3,
        TRUE))>>),
      \* r"أجر[ًًا]?\s*أساس[يىي]\s*قدره\s*([0-9][0-9\.,]+)"
      BASE_SALARY |->
        Cat(<<Lit(<<1571, 1580, 1585>>), Opt(Cls(FALSE, {1575, 1611}, {}, {})),
        Star(ClsS), Lit(<<1571, 1587, 1575, 1587>>), Cls(FALSE, {1609, 1610}, {},
        {}), Star(ClsS), Lit(<<1602, 1583, 1585, 1607>>), Star(ClsS), Grp(1,
        Cat(<<Cls09, Plus(Cls(FALSE, {44, 46}, {<<48, 57>>}, {}))>>))>>),
      \* r"أجر\s*([0-9][0-9\.,]+)\s*ريال\s*سعودي\s*[,،]?\s*بدل\s*سكن"
      HOUSING |->
        Cat(<<Lit(<<1571, 1580, 1585>>), Star(ClsS), Grp(1, Cat(<<Cls09,
        Plus(Cls(FALSE, {44, 46}, {<<48, 57>>}, {}))>>)), Star(ClsS), Lit(<<1585,
        1610, 1575, 1604>>), Star(ClsS), Lit(<<1587, 1593, 1608, 1583, 1610>>),
        Star(ClsS), Opt(Cls(FALSE, {44, 1548}, {}, {})), Star(ClsS), Lit(<<1576,
        1583, 1604>>), Star(ClsS), Lit(<<1587, 1603, 1606>>)>>),
      \* r"إجازة\s*سنوية\s*مدتها\s*(\d+)\s*يوم"
      ANNUAL_LEAVE |->
        Cat(<<Lit(<<1573, 1580, 1575, 1586, 1577>>), Star(ClsS), Lit(<<1587,
        1606, 1608, 1610, 1577>>), Star(ClsS), Lit(<<1605, 1583, 1578, 1607,
        1575>>), Star(ClsS), Grp(1, Plus(ClsD)), Star(ClsS), Lit(<<1610, 1608,
        1605>>)>>),
      \* r"تعويض[ًًا]?.*?قدره\s*([0-9][0-9\.,]+)\s*ريال\s*سعودي"
      TERMINATION |->
        Cat(<<Lit(<<1578, 1593, 1608, 1610, 1590>>), Opt(Cls(FALSE, {1575, 1611},
        {}, {})), LazyStar(Dot), Lit(<<1602, 1583, 1585, 1607>>), Star(ClsS),
        Grp(1, Cat(<<Cls09, Plus(Cls(FALSE, {44, 46}, {<<48, 57>>}, {}))>>)),
        Star(ClsS), Lit(<<1585, 1610, 1575, 1604>>), Star(ClsS), Lit(<<1587,
        1593, 1608, 1583, 1610>>)>>)
    ]

\* the label lists parse_contract hands to get_bi
LABELS ==
    [
      \* "شركة/مؤسسة", "Corporation/Company"
      COMPANY |->
        <<<<1588, 1585, 1603, 1577, 47, 1605, 1572, 1587, 1587, 1577>>,
          <<67, 111, 114, 112, 111, 114, 97, 116, 105, 111, 110, 47, 67, 111,
          109, 112, 97, 110, 121>>>>,
      \* "الرقم الوطني الموحد", "National Unified Number"
      UNIFIED_NO |->
        <<<<1575, 1604, 1585, 1602, 1605, 32, 1575, 1604, 1608, 1591, 1606, 1610,
          32, 1575, 1604, 1605, 1608, 1581, 1583>>,
          <<78, 97, 116, 105, 111, 110, 97, 108, 32, 85, 110, 105, 102, 105, 101,
          100, 32, 78, 117, 109, 98, 101, 114>>>>,
      \* "رقم المنشأة", "Establishment Number"
      ESTABLISHMENT |->
        <<<<1585, 1602, 1605, 32, 1575, 1604, 1605, 1606, 1588, 1571, 1577>>,
          <<69, 115, 116, 97, 98, 108, 105, 115, 104, 109, 101, 110, 116, 32, 78,
          117, 109, 98, 101, 114>>>>,
      \* "السجل التجاري", "Commercial Registration"
      COMMERCIAL_REG |->
        <<<<1575, 1604, 1587, 1580, 1604, 32, 1575, 1604, 1578, 1580, 1575, 1585,
          1610>>,
          <<67, 111, 109, 109, 101, 114, 99, 105, 97, 108, 32, 82, 101, 103, 105,
          115, 116, 114, 97, 116, 105, 111, 110>>>>,
      \* "العنوان", "Address"
      ADDRESS |->
        <<<<1575, 1604, 1593, 1606, 1608, 1575, 1606>>,
          <<65, 100, 100, 114, 101, 115, 115>>>>,
      \* "مكان العمل", "Work Location"
      WORK_LOCATION |->
        <<<<1605, 1603, 1575, 1606, 32, 1575, 1604, 1593, 1605, 1604>>,
          <<87, 111, 114, 107, 32, 76, 111, 99, 97, 116, 105, 111, 110>>>>,
      \* "االسم", "الاسم", "Name"
      NAME |->
        <<<<1575, 1575, 1604, 1587, 1605>>,
          <<1575, 1604, 1575, 1587, 1605>>,
          <<78, 97, 109, 101>>>>,
      \* "المهنة", "Profession"
      PROFESSION |->
        <<<<1575, 1604, 1605, 1607, 1606, 1577>>,
          <<80, 114, 111, 102, 101, 115, 115, 105, 111, 110>>>>,
      \* "الرقم الوظيفي", "Employee Number"
      EMPLOYEE_NO |->
        <<<<1575, 1604, 1585, 1602, 1605, 32, 1575, 1604, 1608, 1592, 1610, 1601,
          1610>>,
          <<69, 109, 112, 108, 111, 121, 101, 101, 32, 78, 117, 109, 98, 101,
          114>>>>,
      \* "الجنسية", "Nationality"
      NATIONALITY |->
        <<<<1575, 1604, 1580, 1606, 1587, 1610, 1577>>,
          <<78, 97, 116, 105, 111, 110, 97, 108, 105, 116, 121>>>>,
      \* "تاريخ الميالد", "Date of Birth"
      BIRTH_DATE |->
        <<<<1578, 1575, 1585, 1610, 1582, 32, 1575, 1604, 1605, 1610, 1575, 1604,
          1583>>,
          <<68, 97, 116, 101, 32, 111, 102, 32, 66, 105, 114, 116, 104>>>>,
      \* "رقم الهوية", "Identity Number"
      ID_NO |->
        <<<<1585, 1602, 1605, 32, 1575, 1604, 1607, 1608, 1610, 1577>>,
          <<73, 100, 101, 110, 116, 105, 116, 121, 32, 78, 117, 109, 98, 101,
          114>>>>,
      \* "نوع الهوية", "ID Type"
      ID_TYPE |->
        <<<<1606, 1608, 1593, 32, 1575, 1604, 1607, 1608, 1610, 1577>>,
          <<73, 68, 32, 84, 121, 112, 101>>>>,
      \* "تاريخ اإلنتهاء", "تاريخ الانتهاء", "ID Expiry Date"
      ID_EXPIRY |->
        <<<<1578, 1575, 1585, 1610, 1582, 32, 1575, 1573, 1604, 1606, 1578, 1607,
          1575, 1569>>,
          <<1578, 1575, 1585, 1610, 1582, 32, 1575, 1604, 1575, 1606, 1578, 1607,
          1575, 1569>>,
          <<73, 68, 32, 69, 120, 112, 105, 114, 121, 32, 68, 97, 116, 101>>>>,
      \* "الجنس", "Gender"
      GENDER |->
        <<<<1575, 1604, 1580, 1606, 1587>>,
          <<71, 101, 110, 100, 101, 114>>>>,
      \* "الديانة", "Religion"
      RELIGION |->
        <<<<1575, 1604, 1583, 1610, 1575, 1606, 1577>>,
          <<82, 101, 108, 105, 103, 105, 111, 110>>>>,
      \* "الحالة االجتماعية", "الحالة الاجتماعية", "Marital Status"
      MARITAL |->
        <<<<1575, 1604, 1581, 1575, 1604, 1577, 32, 1575, 1575, 1604, 1580, 1578,
          1605, 1575, 1593, 1610, 1577>>,
          <<1575, 1604, 1581, 1575, 1604, 1577, 32, 1575, 1604, 1575, 1580, 1578,
          1605, 1575, 1593, 1610, 1577>>,
          <<77, 97, 114, 105, 116, 97, 108, 32, 83, 116, 97, 116, 117, 115>>>>,
      \* "المؤهل العلمي", "Education"
      EDUCATION |->
        <<<<1575, 1604, 1605, 1572, 1607, 1604, 32, 1575, 1604, 1593, 1604, 1605,
          1610>>,
          <<69, 100, 117, 99, 97, 116, 105, 111, 110>>>>,
      \* "التخصص", "Speciality"
      SPECIALITY |->
        <<<<1575, 1604, 1578, 1582, 1589, 1589>>,
          <<83, 112, 101, 99, 105, 97, 108, 105, 116, 121>>>>,
      \* "رقم اآليبان", "رقم الآيبان", "Iban"
      IBAN |->
        <<<<1585, 1602, 1605, 32, 1575, 1570, 1604, 1610, 1576, 1575, 1606>>,
          <<1585, 1602, 1605, 32, 1575, 1604, 1570, 1610, 1576, 1575, 1606>>,
          <<73, 98, 97, 110>>>>,
      \* "اسم البنك", "Bank Name"
      BANK |->
        <<<<1575, 1587, 1605, 32, 1575, 1604, 1576, 1606, 1603>>,
          <<66, 97, 110, 107, 32, 78, 97, 109, 101>>>>
    ]

\* "ويمثلها بالتوقيع"
LABEL_SIGNATORY == <<1608, 1610, 1605, 1579, 1604, 1607, 1575, 32, 1576, 1575, 1604, 1578, 1608, 1602, 1610, 1593>>

\* "رقم الجوال"
KEYWORD_MOBILE == <<1585, 1602, 1605, 32, 1575, 1604, 1580, 1608, 1575, 1604>>

\* "هتفصب"
AS_TITLE_REVERSED == <<1607, 1578, 1601, 1589, 1576>>

\* "بصفته"
AS_TITLE == <<1576, 1589, 1601, 1578, 1607>>

\* the keys parse_contract assigns, as written in its out["..."] subscripts
K ==
    [
      \* out["رقم العقد"]
      CONTRACT_NO |->
        <<1585, 1602, 1605, 32, 1575, 1604, 1593, 1602, 1583>>,
      \* out["تاريخ العقد"]
      CONTRACT_DATE |->
        <<1578, 1575, 1585, 1610, 1582, 32, 1575, 1604, 1593, 1602, 1583>>,
      \* out["شركة/مؤسسة"]
      COMPANY |->
        <<1588, 1585, 1603, 1577, 47, 1605, 1572, 1587, 1587, 1577>>,
      \* out["الرقم الوطني الموحد"]
      UNIFIED_NO |->
        <<1575, 1604, 1585, 1602, 1605, 32, 1575, 1604, 1608, 1591, 1606, 1610,
        32, 1575, 1604, 1605, 1608, 1581, 1583>>,
      \* out["رقم المنشأة"]
      ESTABLISHMENT |->
        <<1585, 1602, 1605, 32, 1575, 1604, 1605, 1606, 1588, 1571, 1577>>,
      \* out["السجل التجاري"]
      COMMERCIAL_REG |->
        <<1575, 1604, 1587, 1580, 1604, 32, 1575, 1604, 1578, 1580, 1575, 1585,
        1610>>,
      \* out["عنوان الشركة"]
      ADDRESS |->
        <<1593, 1606, 1608, 1575, 1606, 32, 1575, 1604, 1588, 1585, 1603, 1577>>,
      \* out["مكان العمل"]
      WORK_LOCATION |->
        <<1605, 1603, 1575, 1606, 32, 1575, 1604, 1593, 1605, 1604>>,
      \* out["بريد الشركة"]
      COMPANY_EMAIL |->
        <<1576, 1585, 1610, 1583, 32, 1575, 1604, 1588, 1585, 1603, 1577>>,
      \* out["بريد الموظف"]
      EMPLOYEE_EMAIL |->
        <<1576, 1585, 1610, 1583, 32, 1575, 1604, 1605, 1608, 1592, 1601>>,
      \* out["المسؤول الموقع"]
      SIGNATORY |->
        <<1575, 1604, 1605, 1587, 1572, 1608, 1604, 32, 1575, 1604, 1605, 1608,
        1602, 1593>>,
      \* out["الصفة"]
      TITLE |->
        <<1575, 1604, 1589, 1601, 1577>>,
      \* out["اسم الموظف"]
      NAME |->
        <<1575, 1587, 1605, 32, 1575, 1604, 1605, 1608, 1592, 1601>>,
      \* out["المهنة"]
      PROFESSION |->
        <<1575, 1604, 1605, 1607, 1606, 1577>>,
      \* out["الرقم الوظيفي"]
      EMPLOYEE_NO |->
        <<1575, 1604, 1585, 1602, 1605, 32, 1575, 1604, 1608, 1592, 1610, 1601,
        1610>>,
      \* out["الجنسية"]
      NATIONALITY |->
        <<1575, 1604, 1580, 1606, 1587, 1610, 1577>>,
      \* out["تاريخ الميلاد"]
      BIRTH_DATE |->
        <<1578, 1575, 1585, 1610, 1582, 32, 1575, 1604, 1605, 1610, 1604, 1575,
        1583>>,
      \* out["رقم الهوية"]
      ID_NO |->
        <<1585, 1602, 1605, 32, 1575, 1604, 1607, 1608, 1610, 1577>>,
      \* out["نوع الهوية"]
      ID_TYPE |->
        <<1606, 1608, 1593, 32, 1575, 1604, 1607, 1608, 1610, 1577>>,
      \* out["تاريخ انتهاء الهوية"]
      ID_EXPIRY |->
        <<1578, 1575, 1585, 1610, 1582, 32, 1575, 1606, 1578, 1607, 1575, 1569,
        32, 1575, 1604, 1607, 1608, 1610, 1577>>,
      \* out["الجنس"]
      GENDER |->
        <<1575, 1604, 1580, 1606, 1587>>,
      \* out["الديانة"]
      RELIGION |->
        <<1575, 1604, 1583, 1610, 1575, 1606, 1577>>,
      \* out["الحالة الاجتماعية"]
      MARITAL |->
        <<1575, 1604, 1581, 1575, 1604, 1577, 32, 1575, 1604, 1575, 1580, 1578,
        1605, 1575, 1593, 1610, 1577>>,
      \* out["المؤهل العلمي"]
      EDUCATION |->
        <<1575, 1604, 1605, 1572, 1607, 1604, 32, 1575, 1604, 1593, 1604, 1605,
        1610>>,
      \* out["التخصص"]
      SPECIALITY |->
        <<1575, 1604, 1578, 1582, 1589, 1589>>,
      \* out["رقم الآيبان"]
      IBAN |->
        <<1585, 1602, 1605, 32, 1575, 1604, 1570, 1610, 1576, 1575, 1606>>,
      \* out["اسم البنك"]
      BANK |->
        <<1575, 1587, 1605, 32, 1575, 1604, 1576, 1606, 1603>>,
      \* out["رقم الجوال"]
      MOBILE |->
        <<1585, 1602, 1605, 32, 1575, 1604, 1580, 1608, 1575, 1604>>,
      \* out["مدة العقد"]
      DURATION |->
        <<1605, 1583, 1577, 32, 1575, 1604, 1593, 1602, 1583>>,
      \* out["بدء العقد"]
      START |->
        <<1576, 1583, 1569, 32, 1575, 1604, 1593, 1602, 1583>>,
      \* out["انتهاء العقد"]
      END |->
        <<1575, 1606, 1578, 1607, 1575, 1569, 32, 1575, 1604, 1593, 1602, 1583>>,
      \* out["تاريخ المباشرة الفعلية"]
      JOINING |->
        <<1578, 1575, 1585, 1610, 1582, 32, 1575, 1604, 1605, 1576, 1575, 1588,
        1585, 1577, 32, 1575, 1604, 1601, 1593, 1604, 1610, 1577>>,
      \* out["فترة التجربة"]
      TRIAL |->
        <<1601, 1578, 1585, 1577, 32, 1575, 1604, 1578, 1580, 1585, 1576, 1577>>,
      \* out["أيام العمل الأسبوعية"]
      WORK_DAYS |->
        <<1571, 1610, 1575, 1605, 32, 1575, 1604, 1593, 1605, 1604, 32, 1575,
        1604, 1571, 1587, 1576, 1608, 1593, 1610, 1577>>,
      \* out["ساعات العمل اليومية"]
      WORK_HOURS |->
        <<1587, 1575, 1593, 1575, 1578, 32, 1575, 1604, 1593, 1605, 1604, 32,
        1575, 1604, 1610, 1608, 1605, 1610, 1577>>,
      \* out["أجر الساعة الإضافية"]
      OVERTIME |->
        <<1571, 1580, 1585, 32, 1575, 1604, 1587, 1575, 1593, 1577, 32, 1575,
        1604, 1573, 1590, 1575, 1601, 1610, 1577>>,
      \* out["الراتب الأساسي"]
      BASE_SALARY |->
        <<1575, 1604, 1585, 1575, 1578, 1576, 32, 1575, 1604, 1571, 1587, 1575,
        1587, 1610>>,
      \* out["بدل السكن"]
      HOUSING |->
        <<1576, 1583, 1604, 32, 1575, 1604, 1587, 1603, 1606>>,
      \* out["الإجازة السنوية"]
      ANNUAL_LEAVE |->
        <<1575, 1604, 1573, 1580, 1575, 1586, 1577, 32, 1575, 1604, 1587, 1606,
        1608, 1610, 1577>>,
      \* out["التعويض عند الفسخ بدون سبب"]
      TERMINATION |->
        <<1575, 1604, 1578, 1593, 1608, 1610, 1590, 32, 1593, 1606, 1583, 32,
        1575, 1604, 1601, 1587, 1582, 32, 1576, 1583, 1608, 1606, 32, 1587, 1576,
        1576>>
    ]

RECURSIVE ReplaceAll(_, _, _)
\* s.replace(old, new), old non-empty
ReplaceAll(s, old, new) ==
    IF s = <<>> THEN <<>>
    ELSE IF StartsWith(s, old)
    THEN new \o ReplaceAll(SubSeq(s, Len(old) + 1, Len(s)), old, new)
    ELSE <<Head(s)>> \o ReplaceAll(Tail(s), old, new)

\* the short-number fields without the repair: the variant C13 is checked
\* against
ShortNumberKept(t) == digits_only(t)

\* the short-number fields: a 2-character token goes through
\* normalize_reversed_short_number, then digits_only
ShortNumber(t) ==
    digits_only(IF Len(t) = 2 THEN normalize_reversed_short_number(t) ELSE t)

\* The assignments out[k] = v of parse_contract are modelled as the list of
\* the pairs <<k, v>> in the order the code executes them.

\* out[k] = v
Set(k, v) == <<<<k, v>>>>

\* if m: out[k] = F(m.group(g))
SetGroup(m, text, g, k, F(_)) == IF m.ok THEN <<<<k, F(Group(m, text, g))>>>> ELSE <<>>

\* m.group(1) as it is
Itself(v) == v

\* "out[k]" is truthy after the assignments a to the one key k
Filled(a) == a # <<>> /\ a[Len(a)][2] # <<>>

\* contract number and contract date
ParseHead(text) ==
    SetGroup(Search(RE.CONTRACT_NO, text), text, 1, K.CONTRACT_NO, Itself)
    \o Let(SetGroup(Search(RE.DATE_ON_DAY, text), text, 1, K.CONTRACT_DATE,
                    format_date_any),
           LAMBDA first :
               first \o
               \* if not out["تاريخ العقد"]: second pattern
               (IF Filled(first) THEN <<>>
                ELSE Let(SetGroup(Search(RE.DATE_PAREN, text), text, 1,
                                  K.CONTRACT_DATE, format_date_any),
                         LAMBDA second :
                             second \o
                             \* if not out["تاريخ العقد"]: third pattern
                             (IF Filled(second) THEN <<>>
                              ELSE SetGroup(Search(RE.DATE_DONE, text), text, 1,
                                            K.CONTRACT_DATE, format_date_any)))))

\* signatory and position, from the value sign_raw after its label
ParseSignatory(sign_raw) ==
    IF sign_raw = <<>> THEN <<>>
    \* re.split(r"\s*بصفته\s*", sign_raw, maxsplit=1)
    ELSE Let(Search(RE.AS_TITLE, sign_raw), LAMBDA sp :
             IF sp.ok
             THEN Set(K.SIGNATORY, Strip(SubSeq(sign_raw, 1, sp.start - 1)))
                  \o Set(K.TITLE, Strip(SubSeq(sign_raw, sp.end, Len(sign_raw))))
             ELSE Set(K.SIGNATORY, sign_raw))

\* company, emails, signatory and position
ParseCompany(text) ==
    Set(K.COMPANY, fix_rtl_value(get_bi(text, LABELS.COMPANY)))
    \o Set(K.UNIFIED_NO, digits_only(get_bi(text, LABELS.UNIFIED_NO)))
    \o Set(K.ESTABLISHMENT, Strip(get_bi(text, LABELS.ESTABLISHMENT)))
    \o Set(K.COMMERCIAL_REG, digits_only(get_bi(text, LABELS.COMMERCIAL_REG)))
    \o Set(K.ADDRESS, fix_rtl_value(get_bi(text, LABELS.ADDRESS)))
    \o Set(K.WORK_LOCATION, fix_rtl_value(get_bi(text, LABELS.WORK_LOCATION)))
    \* emails: company then employee
    \o Let(FindAll(EMAIL_RE, text), LAMBDA emails :
           (IF emails # <<>> THEN Set(K.COMPANY_EMAIL, emails[1]) ELSE <<>>)
           \o (IF Len(emails) >= 2 THEN Set(K.EMPLOYEE_EMAIL, emails[2]) ELSE <<>>))
    \o ParseSignatory(
           Strip(ReplaceAll(fix_rtl_value(get_value_after_label(text, LABEL_SIGNATORY)),
                            AS_TITLE_REVERSED, AS_TITLE)))

\* the employee's identity
ParseEmployee(text) ==
    Set(K.NAME, fix_rtl_value(Strip(get_bi(text, LABELS.NAME))))
    \o Set(K.PROFESSION, fix_rtl_value(get_bi(text, LABELS.PROFESSION)))
    \o Set(K.EMPLOYEE_NO, digits_only(get_bi(text, LABELS.EMPLOYEE_NO)))
    \o Set(K.NATIONALITY, fix_rtl_value(get_bi(text, LABELS.NATIONALITY)))
    \o Set(K.BIRTH_DATE, format_date_any(get_bi(text, LABELS.BIRTH_DATE)))
    \o Set(K.ID_NO, digits_only(get_bi(text, LABELS.ID_NO)))
    \o Set(K.ID_TYPE, fix_rtl_value(get_bi(text, LABELS.ID_TYPE)))
    \o Set(K.ID_EXPIRY, format_date_any(get_bi(text, LABELS.ID_EXPIRY)))
    \o Set(K.GENDER, fix_rtl_value(get_bi(text, LABELS.GENDER)))
    \o Set(K.RELIGION, fix_rtl_value(get_bi(text, LABELS.RELIGION)))
    \o Set(K.MARITAL, fix_rtl_value(get_bi(text, LABELS.MARITAL)))
    \o Set(K.EDUCATION, fix_rtl_value(get_bi(text, LABELS.EDUCATION)))
    \o Set(K.SPECIALITY, fix_rtl_value(get_bi(text, LABELS.SPECIALITY)))
    \* re.sub(r"\s+", "", iban).strip()
    \o Set(K.IBAN, Strip(SelectSeq(get_bi(text, LABELS.IBAN),
                                   LAMBDA c : ~IsSpace(c))))
    \o Set(K.BANK, fix_rtl_value(get_bi(text, LABELS.BANK)))
    \o Let(find_line_containing(text, KEYWORD_MOBILE), LAMBDA mobile_line :
           IF mobile_line # <<>>
           THEN Set(K.MOBILE, normalize_mobile_from_line(mobile_line))
           ELSE <<>>)

\* duration, start/end and joining dates, trial period, work days and hours
ParseTerms(text) ==
    SetGroup(Search(RE.DURATION, text), text, 1, K.DURATION, digits_only)
    \o Let(Search(RE.START_END, text), LAMBDA m :
           IF m.ok
           THEN SetGroup(m, text, 1, K.START, format_date_any)
                \o SetGroup(m, text, 2, K.END, format_date_any)
           ELSE SetGroup(Search(RE.START, text), text, 1, K.START, format_date_any)
                \o SetGroup(Search(RE.END, text), text, 1, K.END, format_date_any))
    \o SetGroup(Search(RE.JOINING, text), text, 1, K.JOINING, format_date_any)
    \* trial period (09 -> 90)
    \o SetGroup(Search(RE.TRIAL, text), text, 1, K.TRIAL, ShortNumber)
    \o SetGroup(Search(RE.WORK_DAYS, text), text, 1, K.WORK_DAYS, digits_only)
    \o SetGroup(Search(RE.WORK_HOURS, text), text, 1, K.WORK_HOURS, digits_only)

\* overtime percent, money amounts, annual leave
ParseMoney(text) ==
    \* overtime percent (05 -> 50)
    SetGroup(Search(RE.OVERTIME, text), text, 1, K.OVERTIME, ShortNumber)
    \o SetGroup(Search(RE.BASE_SALARY, text), text, 1, K.BASE_SALARY,
                normalize_amount_token)
    \o SetGroup(Search(RE.HOUSING, text), text, 1, K.HOUSING, normalize_amount_token)
    \* annual leave (03 -> 30)
    \o SetGroup(Search(RE.ANNUAL_LEAVE, text), text, 1, K.ANNUAL_LEAVE, ShortNumber)
    \o SetGroup(Search(RE.TERMINATION, text), text, 1, K.TERMINATION,
                normalize_amount_token)

\* a record that lacks the first schema key: the variant C1 is checked against
EmptyRowShort == [h \in Range(HEADERS) \ {HEADERS[1]} |-> <<>>]

\* {h: "" for h in HEADERS}
EmptyRow == [h \in Range(HEADERS) |-> <<>>]

\* the dict d after the assignments of the list log: an assigned key that d
\* does not have is added, and the last assignment to a key wins
Assign(d, log) ==
    [k \in DOMAIN d \cup {log[i][1] : i \in 1..Len(log)} |->
        LET at == {i \in 1..Len(log) : log[i][1] = k}
        IN  IF at = {} THEN d[k]
            ELSE log[CHOOSE i \in at : \A j \in at : j <= i][2]]

parse_contract(text) ==
    IF text = <<>> THEN EmptyRow
    ELSE Let(Assign(EmptyRow,
                    ParseHead(text) \o ParseCompany(text) \o ParseEmployee(text)
                        \o ParseTerms(text) \o ParseMoney(text)),
             \* final cleanup: every value stripped
             LAMBDA o : [k \in DOMAIN o |-> Strip(o[k])])

(***************************************************************************)
(* Quality score: calc_quality (pdf_contracts.py), quality_score (app.py)  *)
(***************************************************************************)

\* round(n / d, 0) of Python for n >= 0, d > 0: to nearest, ties to even
RoundDiv(n, d) ==
    LET q == n \div d
        r == n % d
    IN  IF 2 * r < d THEN q
        ELSE IF 2 * r > d THEN q + 1
        ELSE IF q % 2 = 0 THEN q ELSE q + 1

\* round((filled / total) * 100, 1) if total else 0.0, in tenths of a percent
Pct(filled, total) ==
    IF total = 0 THEN 0 ELSE RoundDiv(filled * 1000, total)

\* str(row.get(h, "")) without the strip(): the variant C8 is checked against
RowValueUntrimmed(row, h) == IF h \in DOMAIN row THEN row[h] ELSE <<>>

\* str(row.get(h, "")).strip()
RowValue(row, h) == IF h \in DOMAIN row THEN Strip(row[h]) ELSE <<>>

\* the loop of calc_quality over the first n headers: <<filled, missing>>
RECURSIVE QualityLoop(_, _)
QualityLoop(row, n) ==
    IF n = 0 THEN <<0, <<>>>>
    ELSE LET prev == QualityLoop(row, n - 1)
             v == RowValue(row, HEADERS[n])
         IN  IF v # <<>> THEN <<prev[1] + 1, prev[2]>>
             ELSE <<prev[1], Append(prev[2], HEADERS[n])>>

calc_quality(row) ==
    LET total == Len(HEADERS)
        acc == QualityLoop(row, Len(HEADERS))
    IN  [filled |-> acc[1], total |-> total, pct |-> Pct(acc[1], total),
         missing |-> acc[2]]

\* app.py: sum(1 for h in HEADERS if str(row.get(h, "")).strip() != "")
quality_score(row) ==
    LET total == Len(HEADERS)
        filled == Cardinality({n \in 1..Len(HEADERS) : RowValue(row, HEADERS[n]) # <<>>})
    IN  [filled |-> filled, total |-> total, pct |-> Pct(filled, total)]

(***************************************************************************)
(* Inputs                                                                  *)
(***************************************************************************)

\* the str of the decimal digits ds
D(ds) == [n \in 1..Len(ds) |-> 48 + ds[n]]

\* the first n entries of a pool
Take(pool, n) == {pool[k] : k \in 1..(IF n < Len(pool) THEN n ELSE Len(pool))}

(***************************************************************************)
(* format_date_any applied to one string                                   *)
(***************************************************************************)

MaxDateOuter == 11
MaxDateMiddle == 4

\* strings holding exactly one date token a-b-c, kept with its parts, and
\* strings that hold no date token
DateInputs ==
    LET \* first and third parts: years, days, reversed years
        outer == Take(<< D(<<2, 0, 2, 4>>), D(<<2, 1>>), D(<<0, 1>>), D(<<3, 2, 0, 2>>),
                         D(<<3, 0, 0, 0>>), D(<<3, 2>>), D(<<5>>), D(<<0>>),
                         D(<<1, 9, 9, 8>>), D(<<0, 0, 2, 1>>),
                         <<1634, 1632, 1634, 1636>>, D(<<1, 2, 3>>) >>, MaxDateOuter)
        \* second parts: months
        middle == Take(<< D(<<0, 9>>), D(<<1, 3>>), D(<<1, 2>>), D(<<0>>), D(<<7>>) >>,
                       MaxDateMiddle)
        \* what stands before a token: nothing, the words of a sentence, '('
        prefix == {<<>>, <<1578, 1575, 1585, 1610, 1582, 32>>, <<40>>}
        other == {<<>>, <<32>>, D(<<2, 0, 2, 4>>), D(<<2, 1>>) \o <<47>> \o D(<<0, 9>>),
                  <<97, 45, 98, 45, 99>>,
                  D(<<1, 2, 3>>) \o <<45>> \o D(<<1, 2, 3>>) \o <<45>> \o D(<<1>>)}
        Token(pre, a, s1, b, s2, c) ==
            [text |-> pre \o a \o <<s1>> \o b \o <<s2>> \o c, a |-> a, b |-> b, c |-> c]
    IN  {Token(pre, a, s1, b, s1, c) :
            pre \in prefix, a \in outer, s1 \in {45, 47}, b \in middle, c \in outer}
        \cup {Token(<<>>, D(<<2, 0, 2, 4>>), 45, D(<<0, 9>>), 47, D(<<2, 1>>)),
              \* the docstring's '20-21-3202'
              Token(<<>>, D(<<2, 0>>), 45, D(<<2, 1>>), 45, D(<<3, 2, 0, 2>>))}
        \cup {[text |-> t, a |-> <<>>, b |-> <<>>, c |-> <<>>] : t \in other}

DateInit ==
    /\ pc = "ready" /\ inp \in DateInputs /\ out = <<>> /\ passes = 0
    /\ AIIdle /\ BatchIdle

DateCall ==
    /\ pc = "ready"
    /\ out' = format_date_any(inp.text)
    /\ pc' = "done"
    /\ UNCHANGED <<inp, passes, aiVars, batchVars>>

SpecDate == DateInit /\ [][DateCall]_vars

\* DD/MM/YYYY in ASCII digits
IsDateForm(s) ==
    /\ Len(s) = 10
    /\ s[3] = 47 /\ s[6] = 47
    /\ \A n \in {1, 2, 4, 5, 7, 8, 9, 10} : IsAsciiDigit(s[n])

\* C9: format_date_any returns "" or a string of the form DD/MM/YYYY; the
\* token is read year-first when its first part has four digits and day-first
\* otherwise, and the result is empty whenever the month it reads is outside
\* 1..12 or the day it reads is outside 1..31.
C9_DateFormOrEmpty ==
    pc = "done" =>
        /\ out = <<>> \/ IsDateForm(out)
        /\ inp.a # <<>> =>
              LET yearFirst == Len(inp.a) = 4
                  day == IF yearFirst THEN ToInt(inp.c) ELSE ToInt(inp.a)
                  month == ToInt(inp.b)
              IN  /\ (month \notin 1..12 \/ day \notin 1..31) => out = <<>>
                  /\ out # <<>> =>
                        /\ ToInt(SubSeq(out, 1, 2)) = day
                        /\ ToInt(SubSeq(out, 4, 5)) = month
                        /\ yearFirst => ToInt(SubSeq(out, 7, 10)) = ToInt(inp.a)

\* C9: the part of the claim the code keeps: the result is "" or DD/MM/YYYY,
\* and '2024-09-21' gives '21/09/2024'
C9_FormOnly ==
    pc = "done" =>
        /\ out = <<>> \/ IsDateForm(out)
        /\ (inp.a = D(<<2, 0, 2, 4>>) /\ inp.b = D(<<0, 9>>) /\ inp.c = D(<<2, 1>>))
              => out = D(<<2, 1>>) \o <<47>> \o D(<<0, 9>>) \o <<47>> \o D(<<2, 0, 2, 4>>)

\* the year a 4-digit part gives once its digits are reversed, a value below
\* 100 being a year of the 2000s
RepairedYear(part) ==
    LET r == ToInt(Reverse(part)) IN ZeroPad(IF r < 100 THEN r + 2000 ELSE r, 4)

\* C14: whenever the year part of the token (the first part of a year-first
\* token, the third part otherwise) has 4 digits and reads above 2100, the
\* date returned carries that part with its digits reversed; '20-21-3202'
\* gives the date 20/12/2023
C14_ReversedYearRepaired ==
    pc = "done" =>
        LET yearPart == IF Len(inp.a) = 4 THEN inp.a ELSE inp.c
        IN  /\ (Len(yearPart) = 4 /\ ToInt(yearPart) > 2100 /\ out # <<>>)
                  => SubSeq(out, 7, 10) = RepairedYear(yearPart)
            /\ (inp.a = D(<<2, 0>>) /\ inp.b = D(<<2, 1>>) /\ inp.c = D(<<3, 2, 0, 2>>))
                  => out = D(<<2, 0>>) \o <<47>> \o D(<<1, 2>>) \o <<47>> \o D(<<2, 0, 2, 3>>)

\* C14, the part the code keeps: a day-first token whose third part has 4
\* digits and reads above 2100 gives, when its day and month are valid, the
\* date with that part reversed
C14_DayFirstRepaired ==
    (pc = "done" /\ Len(inp.a) \in 1..3 /\ Len(inp.c) = 4 /\ ToInt(inp.c) > 2100
        /\ out # <<>>)
        => SubSeq(out, 7, 10) = RepairedYear(inp.c)

(***************************************************************************)
(* normalize_amount_token applied to one token                             *)
(***************************************************************************)

MaxAmountInt == 8
MaxAmountFrac == 4

\* an amount as printed, and the token the extraction delivered for it:
\* as printed, in transposed character order, or with blanks around it
AmountInputs ==
    LET \* integer parts: 9,720  1,620  810  2,000  0  5  12,345,678  9720  17
        ints == Take(<< D(<<9>>) \o <<44>> \o D(<<7, 2, 0>>),
                        D(<<1>>) \o <<44>> \o D(<<6, 2, 0>>), D(<<8, 1, 0>>),
                        D(<<2>>) \o <<44>> \o D(<<0, 0, 0>>), D(<<0>>), D(<<5>>),
                        D(<<1, 2>>) \o <<44>> \o D(<<3, 4, 5>>) \o <<44>> \o D(<<6, 7, 8>>),
                        D(<<9, 7, 2, 0>>), D(<<1, 7>>) >>, MaxAmountInt)
        \* fractional parts: none  .00  .50  .  .0
        fracs == Take(<< <<>>, <<46>> \o D(<<0, 0>>), <<46>> \o D(<<5, 0>>), <<46>>,
                         <<46>> \o D(<<0>>) >>, MaxAmountFrac)
        plain == {a \o f : a \in ints, f \in fracs}
    IN  {[token |-> t, plain |-> t] : t \in plain \cup {<<>>}}
        \cup {[token |-> Reverse(t), plain |-> t] : t \in plain}
        \cup {[token |-> <<32>> \o t \o <<32, 10>>, plain |-> t] : t \in plain}

AmountInit ==
    /\ pc = "ready" /\ inp \in AmountInputs /\ out = <<>> /\ passes = 0
    /\ AIIdle /\ BatchIdle

AmountCall ==
    /\ pc = "ready"
    /\ out' = normalize_amount_token(inp.token)
    /\ pc' = "done"
    /\ UNCHANGED <<inp, passes, aiVars, batchVars>>

SpecAmount == AmountInit /\ [][AmountCall]_vars

\* the integer part of an amount as printed: its first run of digits and
\* grouping commas, the commas removed
IntegerPart(u) ==
    LET ds == {n \in 1..Len(u) : IsDigit(u[n])}
    IN  IF ds = {} THEN <<>>
        ELSE LET first == CHOOSE n \in ds : \A m \in ds : n <= m
                 ends == {n \in first..(Len(u) + 1) :
                            n = Len(u) + 1 \/ ~(IsDigit(u[n]) \/ u[n] = 44)}
                 stop == CHOOSE n \in ends : \A m \in ends : n <= m
             IN  SelectSeq(SubSeq(u, first, stop - 1), IsDigit)

\* C10: normalize_amount_token returns digits only, equal to the integer part
\* of the amount without its grouping commas and fraction; a token that
\* starts with '00.' is reversed first, so a transposed token gives the result
\* of its untransposed form.
C10_AmountIntegerPart ==
    pc = "done" =>
        LET t == Strip(inp.token)
            transposed == Len(t) >= 3 /\ SubSeq(t, 1, 3) = <<48, 48, 46>>
        IN  /\ \A n \in 1..Len(out) : IsDigit(out[n])
            /\ out = IntegerPart(IF transposed THEN Reverse(t) ELSE t)
            /\ (transposed /\ inp.token = Reverse(inp.plain))
                  => out = IntegerPart(inp.plain)

\* the transposed token '00.027,9' has given '9720'
C10_Witness ==
    /\ pc = "done"
    /\ inp.token = D(<<0, 0>>) \o <<46>> \o D(<<0, 2, 7>>) \o <<44>> \o D(<<9>>)
    /\ out = D(<<9, 7, 2, 0>>)

(***************************************************************************)
(* calc_quality and quality_score applied to one record                    *)
(***************************************************************************)

\* a key outside the schema
EXTRA_KEY == <<110, 111, 116, 101>>

\* records with k filled fields (the first k, the last k, or k spread evenly
\* over the schema), the other fields holding '', ' ' or tab and newline, the
\* filled ones 'x' or ' 7 '; "short" records lack the last schema key and
\* "long" ones have a key outside the schema
QualityInputs ==
    LET FilledAt(shape, k, n) ==
            CASE shape = "first" -> n <= k
              [] shape = "last" -> n > Len(HEADERS) - k
              [] shape = "spread" ->
                    ((n - 1) * k) \div Len(HEADERS) # (n * k) \div Len(HEADERS)
        Keys(keys) ==
            CASE keys = "exact" -> Range(HEADERS)
              [] keys = "short" -> Range(HEADERS) \ {HEADERS[Len(HEADERS)]}
              [] keys = "long" -> Range(HEADERS) \cup {EXTRA_KEY}
        Pos(h) == CHOOSE n \in 1..Len(HEADERS) : HEADERS[n] = h
    IN  {[h \in Keys(keys) |-> IF h = EXTRA_KEY THEN val
                               ELSE IF FilledAt(shape, k, Pos(h)) THEN val ELSE blank] :
            shape \in {"first", "last", "spread"}, k \in 0..Len(HEADERS),
            blank \in {<<>>, <<32>>, <<9, 10>>}, val \in {<<120>>, <<32, 55, 32>>},
            keys \in {"exact", "short", "long"}}

QualityInit ==
    /\ pc = "ready" /\ inp \in QualityInputs
    /\ out = [q |-> calc_quality(EmptyRow), s |-> quality_score(EmptyRow)]
    /\ passes = 0 /\ AIIdle /\ BatchIdle

QualityCall ==
    /\ pc = "ready"
    /\ out' = [q |-> calc_quality(inp), s |-> quality_score(inp)]
    /\ pc' = "done"
    /\ UNCHANGED <<inp, passes, aiVars, batchVars>>

SpecQuality == QualityInit /\ [][QualityCall]_vars

\* the field h of the record holds something other than white space
HoldsText(row, h) ==
    h \in DOMAIN row /\ \E n \in 1..Len(row[h]) : ~IsSpace(row[h][n])

\* C8: calc_quality returns total = 40, filled = the number of schema fields
\* whose trimmed value is non-empty, missing = the other schema fields in
\* schema order, filled + len(missing) = total, and percent =
\* filled/total*100 rounded to one decimal (14 of 40 gives 35.0 with 26
\* missing); quality_score of app.py agrees with it.
C8_QualityCounts ==
    pc = "done" =>
        LET q == out.q
            full == {n \in 1..Len(HEADERS) : HoldsText(inp, HEADERS[n])}
            MissingField(h) == ~HoldsText(inp, h)
        IN  /\ q.total = 40 /\ q.total = Len(HEADERS)
            /\ q.filled = Cardinality(full)
            /\ q.missing = SelectSeq(HEADERS, MissingField)
            /\ q.filled + Len(q.missing) = q.total
            \* percent in tenths: the nearest tenth to filled/total*100
            /\ 2 * (q.pct * q.total - q.filled * 1000) <= q.total
            /\ 2 * (q.filled * 1000 - q.pct * q.total) <= q.total
            /\ q.filled = 14 => (q.pct = 350 /\ Len(q.missing) = 26)
            /\ out.s = [filled |-> q.filled, total |-> q.total, pct |-> q.pct]

\* a record with 14 filled fields and blanks of white space has been scored
\* 35.0 with 26 missing
C8_Witness ==
    /\ pc = "done"
    /\ out.q.filled = 14 /\ out.q.pct = 350 /\ Len(out.q.missing) = 26
    /\ \E h \in DOMAIN inp : inp[h] = <<9, 10>>

(***************************************************************************)
(* normalize_contract_text applied to a text, and again to its own output  *)
(***************************************************************************)

\* lines as the extraction delivers them: a value before its reversed label,
\* a label before its value, a sentence, a blank line
NORMALIZE_LINES ==
    <<
    \* 1: '22477445 :دقعلا مقر'
      <<50, 50, 52, 55, 55, 52, 52, 53, 32, 58, 1583, 1602, 1593, 1604, 1575,
      32, 1605, 1602, 1585>>,
    \* 2: 'رقم العقد: 22477445'
      <<1585, 1602, 1605, 32, 1575, 1604, 1593, 1602, 1583, 58, 32, 50, 50,
      52, 55, 55, 52, 52, 53>>,
    \* 3: 'Name: Ahmad'
      <<78, 97, 109, 101, 58, 32, 65, 104, 109, 97, 100>>,
    \* 4: 'تم إبرام هذا العقد بتاريخ 2024-09-21'
      <<1578, 1605, 32, 1573, 1576, 1585, 1575, 1605, 32, 1607, 1584, 1575,
      32, 1575, 1604, 1593, 1602, 1583, 32, 1576, 1578, 1575, 1585, 1610,
      1582, 32, 50, 48, 50, 52, 45, 48, 57, 45, 50, 49>>,
    \* 5: '  '
      <<32, 32>>,
    \* 6: 'NAME :مسلاا'
      <<78, 65, 77, 69, 32, 58, 1605, 1587, 1604, 1575, 1575>>,
    \* 7: '12/2024'
      <<49, 50, 47, 50, 48, 50, 52>>,
    \* 8: ':الجنس'
      <<58, 1575, 1604, 1580, 1606, 1587>>,
    \* 9: '12:30 :تقولا'
      <<49, 50, 58, 51, 48, 32, 58, 1578, 1602, 1608, 1604, 1575>>
    >>

MaxNormalizeLines == 2
MaxPasses == 3

\* the texts of n lines over the first k lines of the pool
RECURSIVE TextsOf(_, _)
TextsOf(lines, n) ==
    IF n = 0 THEN {<<>>}
    ELSE {JoinLines(<<l>>) : l \in lines}
         \cup UNION {{l \o <<10>> \o t : l \in lines} : t \in TextsOf(lines, n - 1) \ {<<>>}}

NormalizeInit ==
    /\ pc = "ready"
    /\ inp \in TextsOf(Range(NORMALIZE_LINES), MaxNormalizeLines) \cup {<<>>}
    /\ out = inp
    /\ passes = 0
    /\ AIIdle /\ BatchIdle

\* one more application of the normalizer to the text it last returned
NormalizePass ==
    /\ passes < MaxPasses
    /\ out' = normalize_contract_text(out)
    /\ passes' = passes + 1
    /\ pc' = "done"
    /\ UNCHANGED <<inp, aiVars, batchVars>>

SpecNormalize == NormalizeInit /\ [][NormalizePass]_vars

\* C2: normalization is idempotent: applying normalize_contract_text to its
\* own output returns that output unchanged.
C2_Idempotent == [][passes >= 1 => out' = out]_vars

\* the side of a colon is a mirrored label: at least 1 Arabic letter, no
\* Latin letter, fewer than 3 digits
Mirrored(side) == ar_count(side) > 0 /\ lat_count(side) = 0 /\ dig_count(side) < 3

\* the lines the claim allows for a line of exactly one colon with a
\* mirrored side: 'reversed(that side): other side', for either side
RepairedLines(line) ==
    LET k == IndexOf(line, 58)
        left == Strip(SubSeq(line, 1, k - 1))
        right == Strip(SubSeq(line, k + 1, Len(line)))
    IN  (IF Mirrored(right) THEN {Strip(LabelValue(Reverse(right), left))} ELSE {})
        \cup (IF Mirrored(left) THEN {Strip(LabelValue(Reverse(left), right))} ELSE {})

\* C15: the first pass over a single line turns a line of exactly one colon
\* with a mirrored side into 'reversed(that side): other side', and treats a
\* line that does not hold exactly one colon as free text (reversed as a
\* whole if it has no colon and at least 10 Arabic letters, more than Latin
\* ones, and otherwise left as it is); '22477445 :دقعلا مقر' becomes
\* 'رقم العقد: 22477445', from which the contract number 22477445 is read
C15_LabelValueRepair ==
    (passes = 1 /\ ~Contains(inp, 10) /\ Strip(inp) # <<>>) =>
        LET line == Strip(inp)
            colons == Count(line, LAMBDA c : c = 58)
        IN  /\ (colons = 1 /\ RepairedLines(line) # {}) => out \in RepairedLines(line)
            /\ colons = 0 =>
                  out = IF ar_count(line) >= 10 /\ ar_count(line) > lat_count(line)
                        THEN Reverse(line) ELSE line
            /\ colons > 1 => out = line
            /\ inp = NORMALIZE_LINES[1] =>
                  /\ out = NORMALIZE_LINES[2]
                  /\ parse_contract(out)[K.CONTRACT_NO] = D(<<2, 2, 4, 7, 7, 4, 4, 5>>)

\* C15, the part the code keeps: a line of exactly one colon that does not
\* begin with it and has a mirrored side becomes 'reversed(that side): other
\* side', the right side taken first; a line without a colon is free text
C15_OneInnerColon ==
    (passes = 1 /\ ~Contains(inp, 10) /\ Strip(inp) # <<>>) =>
        LET line == Strip(inp)
            colons == Count(line, LAMBDA c : c = 58)
        IN  /\ (colons = 1 /\ line[1] # 58 /\ RepairedLines(line) # {})
                  => out \in RepairedLines(line)
            /\ colons = 0 =>
                  out = IF ar_count(line) >= 10 /\ ar_count(line) > lat_count(line)
                        THEN Reverse(line) ELSE line
            /\ inp = NORMALIZE_LINES[1] =>
                  /\ out = NORMALIZE_LINES[2]
                  /\ parse_contract(out)[K.CONTRACT_NO] = D(<<2, 2, 4, 7, 7, 4, 4, 5>>)

(***************************************************************************)
(* parse_contract applied to one text                                      *)
(***************************************************************************)

\* lines of a contract text: labelled values, sentences the patterns look
\* for, a label without a value, a line that holds no field, a blank line
PARSE_LINES ==
    <<
    \* 1: 'رقم العقد: 22477445'
      <<1585, 1602, 1605, 32, 1575, 1604, 1593, 1602, 1583, 58, 32, 50, 50,
      52, 55, 55, 52, 52, 53>>,
    \* 2: 'Name: Ahmad Ali'
      <<78, 97, 109, 101, 58, 32, 65, 104, 109, 97, 100, 32, 65, 108, 105>>,
    \* 3: 'a@b.co c@d.org'
      <<97, 64, 98, 46, 99, 111, 32, 99, 64, 100, 46, 111, 114, 103>>,
    \* 4: 'رقم الجوال: 966 0505606061'
      <<1585, 1602, 1605, 32, 1575, 1604, 1580, 1608, 1575, 1604, 58, 32, 57,
      54, 54, 32, 48, 53, 48, 53, 54, 48, 54, 48, 54, 49>>,
    \* 5: 'أجر أساسي قدره 00.027,9 ريال'
      <<1571, 1580, 1585, 32, 1571, 1587, 1575, 1587, 1610, 32, 1602, 1583,
      1585, 1607, 32, 48, 48, 46, 48, 50, 55, 44, 57, 32, 1585, 1610, 1575,
      1604>>,
    \* 6: 'في يوم (2024-09-21)'
      <<1601, 1610, 32, 1610, 1608, 1605, 32, 40, 50, 48, 50, 52, 45, 48, 57,
      45, 50, 49, 41>>,
    \* 7: 'Gender:'
      <<71, 101, 110, 100, 101, 114, 58>>,
    \* 8: 'hello world'
      <<104, 101, 108, 108, 111, 32, 119, 111, 114, 108, 100>>,
    \* 9: 'ويمثلها بالتوقيع: محمد بصفته مدير'
      <<1608, 1610, 1605, 1579, 1604, 1607, 1575, 32, 1576, 1575, 1604, 1578,
      1608, 1602, 1610, 1593, 58, 32, 1605, 1581, 1605, 1583, 32, 1576, 1589,
      1601, 1578, 1607, 32, 1605, 1583, 1610, 1585>>,
    \* 10: ''
      <<>>,
    \* 11: '٪ 05 إجازة سنوية مدتها 03 يوم'
      <<1642, 32, 48, 53, 32, 1573, 1580, 1575, 1586, 1577, 32, 1587, 1606,
      1608, 1610, 1577, 32, 1605, 1583, 1578, 1607, 1575, 32, 48, 51, 32,
      1610, 1608, 1605>>
    >>

MaxParseLines == 2

ParseInit ==
    /\ pc = "ready"
    /\ inp \in TextsOf(Range(PARSE_LINES), MaxParseLines) \cup {<<>>}
    /\ out = EmptyRow
    /\ passes = 0
    /\ AIIdle /\ BatchIdle

ParseCall ==
    /\ pc = "ready"
    /\ out' = parse_contract(inp)
    /\ pc' = "done"
    /\ UNCHANGED <<inp, passes, aiVars, batchVars>>

SpecParse == ParseInit /\ [][ParseCall]_vars

\* v is a str: a finite sequence of code points
IsStr(v) == DOMAIN v = 1..Len(v) /\ \A n \in DOMAIN v : v[n] \in 0..1114111

\* C1: parse_contract returns a record whose key set is exactly HEADERS, each
\* value a string, with the empty string for every field that was not found:
\* all fields are empty for the empty text, a labelled field is empty unless
\* one of its labels occurs in the text, and the e-mail fields are empty
\* unless the text holds an '@'.
C1_ExactSchema ==
    pc = "done" =>
        /\ DOMAIN out = Range(HEADERS)
        /\ Cardinality(DOMAIN out) = 40
        /\ \A h \in DOMAIN out : IsStr(out[h])
        /\ inp = <<>> => \A h \in DOMAIN out : out[h] = <<>>
        /\ \A f \in DOMAIN LABELS :
              out[K[f]] # <<>> => \E lab \in Range(LABELS[f]) : HasSubstring(inp, lab)
        /\ (out[K.COMPANY_EMAIL] # <<>> \/ out[K.EMPLOYEE_EMAIL] # <<>>)
              => Contains(inp, 64)

\* a text with a contract number and no other field has been parsed: that
\* field is filled and the 39 others are empty
C1_Witness ==
    /\ pc = "done"
    /\ out[K.CONTRACT_NO] = D(<<2, 2, 4, 7, 7, 4, 4, 5>>)
    /\ \A h \in DOMAIN out \ {K.CONTRACT_NO} : out[h] = <<>>

(***************************************************************************)
(* merge_row_with_ai (src/ai_assist.py)                                    *)
(***************************************************************************)

\* row[k] = v
SetItem(row, k, v) == [x \in DOMAIN row \cup {k} |-> IF x = k THEN v ELSE row[x]]

\* the loop of merge_row_with_ai over the first n items of ai.values, a dict
\* given as the list of its (key, value) items: [row, filled]
RECURSIVE MergeLoop(_, _, _, _)
MergeLoop(row, items, n, only_fill_empty) ==
    IF n = 0 THEN [row |-> row, filled |-> 0]
    ELSE LET prev == MergeLoop(row, items, n - 1, only_fill_empty)
             k == items[n][1]
             v == items[n][2]
         IN  IF v = <<>> THEN prev
             ELSE IF only_fill_empty /\ RowValue(prev.row, k) # <<>> THEN prev
             ELSE [row |-> SetItem(prev.row, k, v), filled |-> prev.filled + 1]

\* merge_row_with_ai with only_fill_empty ignored: the variant C3 is checked
\* against
merge_overwriting(row, items, only_fill_empty) ==
    MergeLoop(row, items, Len(items), FALSE)

merge_row_with_ai(row, items, only_fill_empty) ==
    MergeLoop(row, items, Len(items), only_fill_empty)

MaxMergeFields == 2

\* the calls of merge_row_with_ai: records that differ from the empty record
\* in the first fields of the schema, holding '', ' ' or 'X'; ai.values with
\* '', 'Y' or ' ' for any of those fields, in schema order, and possibly a
\* key the record does not have; only_fill_empty either way
MergeInputs ==
    LET keys == {HEADERS[n] : n \in 1..MaxMergeFields}
        records == {[h \in Range(HEADERS) |-> IF h \in keys THEN held[h] ELSE <<>>] :
                    held \in [keys -> {<<>>, <<32>>, <<88>>}]}
        Item(ret, n) == IF HEADERS[n] \in DOMAIN ret
                        THEN <<<<HEADERS[n], ret[HEADERS[n]]>>>> ELSE <<>>
        RECURSIVE ItemsOf(_, _)
        ItemsOf(ret, n) == IF n = 0 THEN <<>> ELSE ItemsOf(ret, n - 1) \o Item(ret, n)
        lists == UNION {{ItemsOf(ret, MaxMergeFields) : ret \in [ks -> {<<>>, <<89>>, <<32>>}]} :
                            ks \in SUBSET keys}
    IN  [row : records,
         items : lists \cup {Append(l, <<EXTRA_KEY, <<89>>>>) : l \in lists},
         only_fill_empty : BOOLEAN]

MergeInit ==
    /\ pc = "ready"
    /\ inp \in MergeInputs
    /\ out = [row |-> EmptyRow, filled |-> 0]
    /\ passes = 0
    /\ AIIdle /\ BatchIdle

MergeCall ==
    /\ pc = "ready"
    /\ out' = merge_row_with_ai(inp.row, inp.items, inp.only_fill_empty)
    /\ pc' = "done"
    /\ UNCHANGED <<inp, passes, aiVars, batchVars>>

SpecMerge == MergeInit /\ [][MergeCall]_vars

\* the value returned for the key k, '' if none was
Returned(items, k) ==
    IF \E n \in 1..Len(items) : items[n][1] = k
    THEN items[CHOOSE n \in 1..Len(items) : items[n][1] = k][2]
    ELSE <<>>

\* the merge left the record and the count as the claimed policy prescribes:
\* a key is written exactly when a non-empty value was returned for it and
\* the record's field was empty after trimming
MergedByPolicy ==
    LET keys == DOMAIN inp.row \cup {inp.items[n][1] : n \in 1..Len(inp.items)}
        written == {k \in keys : Returned(inp.items, k) # <<>> /\ ~HoldsText(inp.row, k)}
    IN  /\ DOMAIN out.row = DOMAIN inp.row \cup written
        /\ \A k \in written : out.row[k] = Returned(inp.items, k)
        /\ \A k \in DOMAIN inp.row \ written : out.row[k] = inp.row[k]
        /\ out.filled = Cardinality(written)

\* C3 (as stated): in merge_row_with_ai a returned value is written only if
\* it is non-empty and the record's field is empty after trimming, filled
\* fields are left unchanged, and the count is the number of fields written.
C3_NeverOverwrites == pc = "done" => MergedByPolicy

\* C3 (amended): the same, for calls with only_fill_empty true (its default).
C3_FillOnlyEmpty == (pc = "done" /\ inp.only_fill_empty) => MergedByPolicy

\* with only_fill_empty true, a field holding 'X' for which 'Y' was returned
\* still holds 'X', and another field was written
C3_Witness ==
    /\ pc = "done" /\ inp.only_fill_empty
    /\ inp.row[HEADERS[1]] = <<88>>
    /\ Returned(inp.items, HEADERS[1]) = <<89>>
    /\ out.row[HEADERS[1]] = <<88>>
    /\ out.filled >= 1

(***************************************************************************)
(* ai_fill_missing_fields (src/ai_assist.py)                               *)
(*                                                                         *)
(* A value of the parsed JSON is a record tagged by its type: null, bool   *)
(* (b), str (s: code points), num (neg, digits: the decimal digits of the  *)
(* int, of any size), float (x), list (items) and dict (items: the pairs   *)
(* <<key, value>> in the order of the text).  The object of the reply      *)
(* itself and the dicts of AIResult are functions on their keys.  The      *)
(* fixed messages of AIResult.error and the texts of exceptions are kept   *)
(* as strings; "" is the empty str.                                        *)
(***************************************************************************)

\* "_evidence"
KEY_EVIDENCE == <<95, 101, 118, 105, 100, 101, 110, 99, 101>>

\* "_confidence"
KEY_CONFIDENCE == <<95, 99, 111, 110, 102, 105, 100, 101, 110, 99, 101>>

\* AIResult(values={}, evidence={}, confidence={}, raw_text=..., error=...)
ErrorResult(raw_text, error) ==
    [values |-> <<>>, evidence |-> <<>>, confidence |-> <<>>,
     raw_text |-> raw_text, error |-> error]

\* the dict in the reply's content, None if there is none: the content is
\* nothing at all ("none"), text without an object ("prose"), braces that do
\* not parse ("broken"), a JSON object ("json") or one wrapped in text
\* ("wrapped")
_extract_json_block(content) ==
    IF content.kind \in {"json", "wrapped"} THEN content.obj ELSE [t |-> "null"]

\* repr(s) of a str: in single quotes, or in double quotes if s holds a single
\* and no double quote; the quote, the backslash and the characters that are
\* not printable are escaped
StrRepr(s) ==
    LET quote == IF Contains(s, 39) /\ ~Contains(s, 34) THEN 34 ELSE 39
        \* not str.isprintable(), of one character (Unicode 14.0.0)
        unprintable(c) ==
            IF c < 65614 THEN IF c < 4785 THEN IF c < 2955 THEN IF c < 2571
            THEN IF c < 2094 THEN IF c < 1419 THEN IF c < 907 THEN IF c < 173
            THEN IF c \in 0..31 THEN TRUE ELSE IF c \in 127..160 THEN TRUE
            ELSE FALSE ELSE IF c = 173 THEN TRUE ELSE IF c \in 888..889 THEN
            TRUE ELSE IF c \in 896..899 THEN TRUE ELSE FALSE ELSE IF c < 930
            THEN IF c = 907 THEN TRUE ELSE IF c = 909 THEN TRUE ELSE FALSE
            ELSE IF c = 930 THEN TRUE ELSE IF c = 1328 THEN TRUE ELSE IF c \in
            1367..1368 THEN TRUE ELSE FALSE ELSE IF c < 1564 THEN IF c < 1480
            THEN IF c \in 1419..1420 THEN TRUE ELSE IF c = 1424 THEN TRUE ELSE
            FALSE ELSE IF c \in 1480..1487 THEN TRUE ELSE IF c \in 1515..1518
            THEN TRUE ELSE IF c \in 1525..1541 THEN TRUE ELSE FALSE ELSE IF c
            < 1867 THEN IF c = 1564 THEN TRUE ELSE IF c = 1757 THEN TRUE ELSE
            IF c \in 1806..1807 THEN TRUE ELSE FALSE ELSE IF c \in 1867..1868
            THEN TRUE ELSE IF c \in 1970..1983 THEN TRUE ELSE IF c \in
            2043..2044 THEN TRUE ELSE FALSE ELSE IF c < 2481 THEN IF c < 2191
            THEN IF c < 2140 THEN IF c \in 2094..2095 THEN TRUE ELSE IF c =
            2111 THEN TRUE ELSE FALSE ELSE IF c \in 2140..2141 THEN TRUE ELSE
            IF c = 2143 THEN TRUE ELSE IF c \in 2155..2159 THEN TRUE ELSE
            FALSE ELSE IF c < 2445 THEN IF c \in 2191..2199 THEN TRUE ELSE IF
            c = 2274 THEN TRUE ELSE IF c = 2436 THEN TRUE ELSE FALSE ELSE IF c
            \in 2445..2446 THEN TRUE ELSE IF c \in 2449..2450 THEN TRUE ELSE
            IF c = 2473 THEN TRUE ELSE FALSE ELSE IF c < 2511 THEN IF c < 2490
            THEN IF c = 2481 THEN TRUE ELSE IF c \in 2483..2485 THEN TRUE ELSE
            FALSE ELSE IF c \in 2490..2491 THEN TRUE ELSE IF c \in 2501..2502
            THEN TRUE ELSE IF c \in 2505..2506 THEN TRUE ELSE FALSE ELSE IF c
            < 2532 THEN IF c \in 2511..2518 THEN TRUE ELSE IF c \in 2520..2523
            THEN TRUE ELSE IF c = 2526 THEN TRUE ELSE FALSE ELSE IF c \in
            2532..2533 THEN TRUE ELSE IF c \in 2559..2560 THEN TRUE ELSE IF c
            = 2564 THEN TRUE ELSE FALSE ELSE IF c < 2758 THEN IF c < 2642 THEN
            IF c < 2615 THEN IF c < 2601 THEN IF c \in 2571..2574 THEN TRUE
            ELSE IF c \in 2577..2578 THEN TRUE ELSE FALSE ELSE IF c = 2601
            THEN TRUE ELSE IF c = 2609 THEN TRUE ELSE IF c = 2612 THEN TRUE
            ELSE FALSE ELSE IF c < 2627 THEN IF c = 2615 THEN TRUE ELSE IF c
            \in 2618..2619 THEN TRUE ELSE IF c = 2621 THEN TRUE ELSE FALSE
            ELSE IF c \in 2627..2630 THEN TRUE ELSE IF c \in 2633..2634 THEN
            TRUE ELSE IF c \in 2638..2640 THEN TRUE ELSE FALSE ELSE IF c <
            2702 THEN IF c < 2655 THEN IF c \in 2642..2648 THEN TRUE ELSE IF c
            = 2653 THEN TRUE ELSE FALSE ELSE IF c \in 2655..2661 THEN TRUE
            ELSE IF c \in 2679..2688 THEN TRUE ELSE IF c = 2692 THEN TRUE ELSE
            FALSE ELSE IF c < 2737 THEN IF c = 2702 THEN TRUE ELSE IF c = 2706
            THEN TRUE ELSE IF c = 2729 THEN TRUE ELSE FALSE ELSE IF c = 2737
            THEN TRUE ELSE IF c = 2740 THEN TRUE ELSE IF c \in 2746..2747 THEN
            TRUE ELSE FALSE ELSE IF c < 2865 THEN IF c < 2802 THEN IF c < 2766
            THEN IF c = 2758 THEN TRUE ELSE IF c = 2762 THEN TRUE ELSE FALSE
            ELSE IF c \in 2766..2767 THEN TRUE ELSE IF c \in 2769..2783 THEN
            TRUE ELSE IF c \in 2788..2789 THEN TRUE ELSE FALSE ELSE IF c <
            2829 THEN IF c \in 2802..2808 THEN TRUE ELSE IF c = 2816 THEN TRUE
            ELSE IF c = 2820 THEN TRUE ELSE FALSE ELSE IF c \in 2829..2830
            THEN TRUE ELSE IF c \in 2833..2834 THEN TRUE ELSE IF c = 2857 THEN
            TRUE ELSE FALSE ELSE IF c < 2894 THEN IF c < 2874 THEN IF c = 2865
            THEN TRUE ELSE IF c = 2868 THEN TRUE ELSE FALSE ELSE IF c \in
            2874..2875 THEN TRUE ELSE IF c \in 2885..2886 THEN TRUE ELSE IF c
            \in 2889..2890 THEN TRUE ELSE FALSE ELSE IF c < 2916 THEN IF c \in
            2894..2900 THEN TRUE ELSE IF c \in 2904..2907 THEN TRUE ELSE IF c
            = 2910 THEN TRUE ELSE FALSE ELSE IF c \in 2916..2917 THEN TRUE
            ELSE IF c \in 2936..2945 THEN TRUE ELSE IF c = 2948 THEN TRUE ELSE
            FALSE ELSE IF c < 3408 THEN IF c < 3159 THEN IF c < 3022 THEN IF c
            < 2976 THEN IF c < 2966 THEN IF c \in 2955..2957 THEN TRUE ELSE IF
            c = 2961 THEN TRUE ELSE FALSE ELSE IF c \in 2966..2968 THEN TRUE
            ELSE IF c = 2971 THEN TRUE ELSE IF c = 2973 THEN TRUE ELSE FALSE
            ELSE IF c < 3002 THEN IF c \in 2976..2978 THEN TRUE ELSE IF c \in
            2981..2983 THEN TRUE ELSE IF c \in 2987..2989 THEN TRUE ELSE FALSE
            ELSE IF c \in 3002..3005 THEN TRUE ELSE IF c \in 3011..3013 THEN
            TRUE ELSE IF c = 3017 THEN TRUE ELSE FALSE ELSE IF c < 3089 THEN
            IF c < 3032 THEN IF c \in 3022..3023 THEN TRUE ELSE IF c \in
            3025..3030 THEN TRUE ELSE FALSE ELSE IF c \in 3032..3045 THEN TRUE
            ELSE IF c \in 3067..3071 THEN TRUE ELSE IF c = 3085 THEN TRUE ELSE
            FALSE ELSE IF c < 3141 THEN IF c = 3089 THEN TRUE ELSE IF c = 3113
            THEN TRUE ELSE IF c \in 3130..3131 THEN TRUE ELSE FALSE ELSE IF c
            = 3141 THEN TRUE ELSE IF c = 3145 THEN TRUE ELSE IF c \in
            3150..3156 THEN TRUE ELSE FALSE ELSE IF c < 3273 THEN IF c < 3213
            THEN IF c < 3166 THEN IF c = 3159 THEN TRUE ELSE IF c \in
            3163..3164 THEN TRUE ELSE FALSE ELSE IF c \in 3166..3167 THEN TRUE
            ELSE IF c \in 3172..3173 THEN TRUE ELSE IF c \in 3184..3190 THEN
            TRUE ELSE FALSE ELSE IF c < 3252 THEN IF c = 3213 THEN TRUE ELSE
            IF c = 3217 THEN TRUE ELSE IF c = 3241 THEN TRUE ELSE FALSE ELSE
            IF c = 3252 THEN TRUE ELSE IF c \in 3258..3259 THEN TRUE ELSE IF c
            = 3269 THEN TRUE ELSE FALSE ELSE IF c < 3312 THEN IF c < 3287 THEN
            IF c = 3273 THEN TRUE ELSE IF c \in 3278..3284 THEN TRUE ELSE
            FALSE ELSE IF c \in 3287..3292 THEN TRUE ELSE IF c = 3295 THEN
            TRUE ELSE IF c \in 3300..3301 THEN TRUE ELSE FALSE ELSE IF c <
            3345 THEN IF c = 3312 THEN TRUE ELSE IF c \in 3315..3327 THEN TRUE
            ELSE IF c = 3341 THEN TRUE ELSE FALSE ELSE IF c = 3345 THEN TRUE
            ELSE IF c = 3397 THEN TRUE ELSE IF c = 3401 THEN TRUE ELSE FALSE
            ELSE IF c < 3774 THEN IF c < 3543 THEN IF c < 3506 THEN IF c <
            3456 THEN IF c \in 3408..3411 THEN TRUE ELSE IF c \in 3428..3429
            THEN TRUE ELSE FALSE ELSE IF c = 3456 THEN TRUE ELSE IF c = 3460
            THEN TRUE ELSE IF c \in 3479..3481 THEN TRUE ELSE FALSE ELSE IF c
            < 3527 THEN IF c = 3506 THEN TRUE ELSE IF c = 3516 THEN TRUE ELSE
            IF c \in 3518..3519 THEN TRUE ELSE FALSE ELSE IF c \in 3527..3529
            THEN TRUE ELSE IF c \in 3531..3534 THEN TRUE ELSE IF c = 3541 THEN
            TRUE ELSE FALSE ELSE IF c < 3676 THEN IF c < 3568 THEN IF c = 3543
            THEN TRUE ELSE IF c \in 3552..3557 THEN TRUE ELSE FALSE ELSE IF c
            \in 3568..3569 THEN TRUE ELSE IF c \in 3573..3584 THEN TRUE ELSE
            IF c \in 3643..3646 THEN TRUE ELSE FALSE ELSE IF c < 3723 THEN IF
            c \in 3676..3712 THEN TRUE ELSE IF c = 3715 THEN TRUE ELSE IF c =
            3717 THEN TRUE ELSE FALSE ELSE IF c = 3723 THEN TRUE ELSE IF c =
            3748 THEN TRUE ELSE IF c = 3750 THEN TRUE ELSE FALSE ELSE IF c <
            4059 THEN IF c < 3808 THEN IF c < 3783 THEN IF c \in 3774..3775
            THEN TRUE ELSE IF c = 3781 THEN TRUE ELSE FALSE ELSE IF c = 3783
            THEN TRUE ELSE IF c \in 3790..3791 THEN TRUE ELSE IF c \in
            3802..3803 THEN TRUE ELSE FALSE ELSE IF c < 3992 THEN IF c \in
            3808..3839 THEN TRUE ELSE IF c = 3912 THEN TRUE ELSE IF c \in
            3949..3952 THEN TRUE ELSE FALSE ELSE IF c = 3992 THEN TRUE ELSE IF
            c = 4029 THEN TRUE ELSE IF c = 4045 THEN TRUE ELSE FALSE ELSE IF c
            < 4686 THEN IF c < 4296 THEN IF c \in 4059..4095 THEN TRUE ELSE IF
            c = 4294 THEN TRUE ELSE FALSE ELSE IF c \in 4296..4300 THEN TRUE
            ELSE IF c \in 4302..4303 THEN TRUE ELSE IF c = 4681 THEN TRUE ELSE
            FALSE ELSE IF c < 4702 THEN IF c \in 4686..4687 THEN TRUE ELSE IF
            c = 4695 THEN TRUE ELSE IF c = 4697 THEN TRUE ELSE FALSE ELSE IF c
            \in 4702..4703 THEN TRUE ELSE IF c = 4745 THEN TRUE ELSE IF c \in
            4750..4751 THEN TRUE ELSE FALSE ELSE IF c < 11624 THEN IF c < 6810
            THEN IF c < 6004 THEN IF c < 5018 THEN IF c < 4823 THEN IF c <
            4799 THEN IF c = 4785 THEN TRUE ELSE IF c \in 4790..4791 THEN TRUE
            ELSE FALSE ELSE IF c = 4799 THEN TRUE ELSE IF c = 4801 THEN TRUE
            ELSE IF c \in 4806..4807 THEN TRUE ELSE FALSE ELSE IF c < 4886
            THEN IF c = 4823 THEN TRUE ELSE IF c = 4881 THEN TRUE ELSE FALSE
            ELSE IF c \in 4886..4887 THEN TRUE ELSE IF c \in 4955..4956 THEN
            TRUE ELSE IF c \in 4989..4991 THEN TRUE ELSE FALSE ELSE IF c <
            5881 THEN IF c < 5118 THEN IF c \in 5018..5023 THEN TRUE ELSE IF c
            \in 5110..5111 THEN TRUE ELSE FALSE ELSE IF c \in 5118..5119 THEN
            TRUE ELSE IF c = 5760 THEN TRUE ELSE IF c \in 5789..5791 THEN TRUE
            ELSE FALSE ELSE IF c < 5972 THEN IF c \in 5881..5887 THEN TRUE
            ELSE IF c \in 5910..5918 THEN TRUE ELSE IF c \in 5943..5951 THEN
            TRUE ELSE FALSE ELSE IF c \in 5972..5983 THEN TRUE ELSE IF c =
            5997 THEN TRUE ELSE IF c = 6001 THEN TRUE ELSE FALSE ELSE IF c <
            6460 THEN IF c < 6170 THEN IF c < 6122 THEN IF c \in 6004..6015
            THEN TRUE ELSE IF c \in 6110..6111 THEN TRUE ELSE FALSE ELSE IF c
            \in 6122..6127 THEN TRUE ELSE IF c \in 6138..6143 THEN TRUE ELSE
            IF c = 6158 THEN TRUE ELSE FALSE ELSE IF c < 6390 THEN IF c \in
            6170..6175 THEN TRUE ELSE IF c \in 6265..6271 THEN TRUE ELSE IF c
            \in 6315..6319 THEN TRUE ELSE FALSE ELSE IF c \in 6390..6399 THEN
            TRUE ELSE IF c = 6431 THEN TRUE ELSE IF c \in 6444..6447 THEN TRUE
            ELSE FALSE ELSE IF c < 6602 THEN IF c < 6510 THEN IF c \in
            6460..6463 THEN TRUE ELSE IF c \in 6465..6467 THEN TRUE ELSE FALSE
            ELSE IF c \in 6510..6511 THEN TRUE ELSE IF c \in 6517..6527 THEN
            TRUE ELSE IF c \in 6572..6575 THEN TRUE ELSE FALSE ELSE IF c <
            6751 THEN IF c \in 6602..6607 THEN TRUE ELSE IF c \in 6619..6621
            THEN TRUE ELSE IF c \in 6684..6685 THEN TRUE ELSE FALSE ELSE IF c
            = 6751 THEN TRUE ELSE IF c \in 6781..6782 THEN TRUE ELSE IF c \in
            6794..6799 THEN TRUE ELSE FALSE ELSE IF c < 8133 THEN IF c < 7419
            THEN IF c < 7156 THEN IF c < 6863 THEN IF c \in 6810..6815 THEN
            TRUE ELSE IF c \in 6830..6831 THEN TRUE ELSE FALSE ELSE IF c \in
            6863..6911 THEN TRUE ELSE IF c \in 6989..6991 THEN TRUE ELSE IF c
            = 7039 THEN TRUE ELSE FALSE ELSE IF c < 7305 THEN IF c \in
            7156..7163 THEN TRUE ELSE IF c \in 7224..7226 THEN TRUE ELSE IF c
            \in 7242..7244 THEN TRUE ELSE FALSE ELSE IF c \in 7305..7311 THEN
            TRUE ELSE IF c \in 7355..7356 THEN TRUE ELSE IF c \in 7368..7375
            THEN TRUE ELSE FALSE ELSE IF c < 8024 THEN IF c < 7966 THEN IF c
            \in 7419..7423 THEN TRUE ELSE IF c \in 7958..7959 THEN TRUE ELSE
            FALSE ELSE IF c \in 7966..7967 THEN TRUE ELSE IF c \in 8006..8007
            THEN TRUE ELSE IF c \in 8014..8015 THEN TRUE ELSE FALSE ELSE IF c
            < 8030 THEN IF c = 8024 THEN TRUE ELSE IF c = 8026 THEN TRUE ELSE
            IF c = 8028 THEN TRUE ELSE FALSE ELSE IF c = 8030 THEN TRUE ELSE
            IF c \in 8062..8063 THEN TRUE ELSE IF c = 8117 THEN TRUE ELSE
            FALSE ELSE IF c < 8385 THEN IF c < 8191 THEN IF c < 8156 THEN IF c
            = 8133 THEN TRUE ELSE IF c \in 8148..8149 THEN TRUE ELSE FALSE
            ELSE IF c = 8156 THEN TRUE ELSE IF c \in 8176..8177 THEN TRUE ELSE
            IF c = 8181 THEN TRUE ELSE FALSE ELSE IF c < 8306 THEN IF c \in
            8191..8207 THEN TRUE ELSE IF c \in 8232..8239 THEN TRUE ELSE IF c
            \in 8287..8303 THEN TRUE ELSE FALSE ELSE IF c \in 8306..8307 THEN
            TRUE ELSE IF c = 8335 THEN TRUE ELSE IF c \in 8349..8351 THEN TRUE
            ELSE FALSE ELSE IF c < 11124 THEN IF c < 8588 THEN IF c \in
            8385..8399 THEN TRUE ELSE IF c \in 8433..8447 THEN TRUE ELSE FALSE
            ELSE IF c \in 8588..8591 THEN TRUE ELSE IF c \in 9255..9279 THEN
            TRUE ELSE IF c \in 9291..9311 THEN TRUE ELSE FALSE ELSE IF c <
            11558 THEN IF c \in 11124..11125 THEN TRUE ELSE IF c = 11158 THEN
            TRUE ELSE IF c \in 11508..11512 THEN TRUE ELSE FALSE ELSE IF c =
            11558 THEN TRUE ELSE IF c \in 11560..11564 THEN TRUE ELSE IF c \in
            11566..11567 THEN TRUE ELSE FALSE ELSE IF c < 43715 THEN IF c <
            12831 THEN IF c < 11870 THEN IF c < 11703 THEN IF c < 11671 THEN
            IF c \in 11624..11630 THEN TRUE ELSE IF c \in 11633..11646 THEN
            TRUE ELSE FALSE ELSE IF c \in 11671..11679 THEN TRUE ELSE IF c =
            11687 THEN TRUE ELSE IF c = 11695 THEN TRUE ELSE FALSE ELSE IF c <
            11727 THEN IF c = 11703 THEN TRUE ELSE IF c = 11711 THEN TRUE ELSE
            IF c = 11719 THEN TRUE ELSE FALSE ELSE IF c = 11727 THEN TRUE ELSE
            IF c = 11735 THEN TRUE ELSE IF c = 11743 THEN TRUE ELSE FALSE ELSE
            IF c < 12352 THEN IF c < 12020 THEN IF c \in 11870..11903 THEN
            TRUE ELSE IF c = 11930 THEN TRUE ELSE FALSE ELSE IF c \in
            12020..12031 THEN TRUE ELSE IF c \in 12246..12271 THEN TRUE ELSE
            IF c \in 12284..12288 THEN TRUE ELSE FALSE ELSE IF c < 12592 THEN
            IF c = 12352 THEN TRUE ELSE IF c \in 12439..12440 THEN TRUE ELSE
            IF c \in 12544..12548 THEN TRUE ELSE FALSE ELSE IF c = 12592 THEN
            TRUE ELSE IF c = 12687 THEN TRUE ELSE IF c \in 12772..12783 THEN
            TRUE ELSE FALSE ELSE IF c < 43128 THEN IF c < 42955 THEN IF c <
            42183 THEN IF c = 12831 THEN TRUE ELSE IF c \in 42125..42127 THEN
            TRUE ELSE FALSE ELSE IF c \in 42183..42191 THEN TRUE ELSE IF c \in
            42540..42559 THEN TRUE ELSE IF c \in 42744..42751 THEN TRUE ELSE
            FALSE ELSE IF c < 42970 THEN IF c \in 42955..42959 THEN TRUE ELSE
            IF c = 42962 THEN TRUE ELSE IF c = 42964 THEN TRUE ELSE FALSE ELSE
            IF c \in 42970..42993 THEN TRUE ELSE IF c \in 43053..43055 THEN
            TRUE ELSE IF c \in 43066..43071 THEN TRUE ELSE FALSE ELSE IF c <
            43470 THEN IF c < 43226 THEN IF c \in 43128..43135 THEN TRUE ELSE
            IF c \in 43206..43213 THEN TRUE ELSE FALSE ELSE IF c \in
            43226..43231 THEN TRUE ELSE IF c \in 43348..43358 THEN TRUE ELSE
            IF c \in 43389..43391 THEN TRUE ELSE FALSE ELSE IF c < 43575 THEN
            IF c = 43470 THEN TRUE ELSE IF c \in 43482..43485 THEN TRUE ELSE
            IF c = 43519 THEN TRUE ELSE FALSE ELSE IF c \in 43575..43583 THEN
            TRUE ELSE IF c \in 43598..43599 THEN TRUE ELSE IF c \in
            43610..43611 THEN TRUE ELSE FALSE ELSE IF c < 64451 THEN IF c <
            55239 THEN IF c < 43815 THEN IF c < 43783 THEN IF c \in
            43715..43738 THEN TRUE ELSE IF c \in 43767..43776 THEN TRUE ELSE
            FALSE ELSE IF c \in 43783..43784 THEN TRUE ELSE IF c \in
            43791..43792 THEN TRUE ELSE IF c \in 43799..43807 THEN TRUE ELSE
            FALSE ELSE IF c < 44014 THEN IF c = 43815 THEN TRUE ELSE IF c =
            43823 THEN TRUE ELSE IF c \in 43884..43887 THEN TRUE ELSE FALSE
            ELSE IF c \in 44014..44015 THEN TRUE ELSE IF c \in 44026..44031
            THEN TRUE ELSE IF c \in 55204..55215 THEN TRUE ELSE FALSE ELSE IF
            c < 64280 THEN IF c < 64110 THEN IF c \in 55239..55242 THEN TRUE
            ELSE IF c \in 55292..63743 THEN TRUE ELSE FALSE ELSE IF c \in
            64110..64111 THEN TRUE ELSE IF c \in 64218..64255 THEN TRUE ELSE
            IF c \in 64263..64274 THEN TRUE ELSE FALSE ELSE IF c < 64319 THEN
            IF c \in 64280..64284 THEN TRUE ELSE IF c = 64311 THEN TRUE ELSE
            IF c = 64317 THEN TRUE ELSE FALSE ELSE IF c = 64319 THEN TRUE ELSE
            IF c = 64322 THEN TRUE ELSE IF c = 64325 THEN TRUE ELSE FALSE ELSE
            IF c < 65480 THEN IF c < 65107 THEN IF c < 64968 THEN IF c \in
            64451..64466 THEN TRUE ELSE IF c \in 64912..64913 THEN TRUE ELSE
            FALSE ELSE IF c \in 64968..64974 THEN TRUE ELSE IF c \in
            64976..65007 THEN TRUE ELSE IF c \in 65050..65055 THEN TRUE ELSE
            FALSE ELSE IF c < 65141 THEN IF c = 65107 THEN TRUE ELSE IF c =
            65127 THEN TRUE ELSE IF c \in 65132..65135 THEN TRUE ELSE FALSE
            ELSE IF c = 65141 THEN TRUE ELSE IF c \in 65277..65280 THEN TRUE
            ELSE IF c \in 65471..65473 THEN TRUE ELSE FALSE ELSE IF c < 65519
            THEN IF c < 65496 THEN IF c \in 65480..65481 THEN TRUE ELSE IF c
            \in 65488..65489 THEN TRUE ELSE FALSE ELSE IF c \in 65496..65497
            THEN TRUE ELSE IF c \in 65501..65503 THEN TRUE ELSE IF c = 65511
            THEN TRUE ELSE FALSE ELSE IF c < 65575 THEN IF c \in 65519..65531
            THEN TRUE ELSE IF c \in 65534..65535 THEN TRUE ELSE IF c = 65548
            THEN TRUE ELSE FALSE ELSE IF c = 65575 THEN TRUE ELSE IF c = 65595
            THEN TRUE ELSE IF c = 65598 THEN TRUE ELSE FALSE ELSE IF c < 75076
            THEN IF c < 69827 THEN IF c < 67670 THEN IF c < 66812 THEN IF c <
            66257 THEN IF c < 65935 THEN IF c < 65787 THEN IF c \in
            65614..65615 THEN TRUE ELSE IF c \in 65630..65663 THEN TRUE ELSE
            FALSE ELSE IF c \in 65787..65791 THEN TRUE ELSE IF c \in
            65795..65798 THEN TRUE ELSE IF c \in 65844..65846 THEN TRUE ELSE
            FALSE ELSE IF c < 65953 THEN IF c = 65935 THEN TRUE ELSE IF c \in
            65949..65951 THEN TRUE ELSE FALSE ELSE IF c \in 65953..65999 THEN
            TRUE ELSE IF c \in 66046..66175 THEN TRUE ELSE IF c \in
            66205..66207 THEN TRUE ELSE FALSE ELSE IF c < 66462 THEN IF c <
            66340 THEN IF c \in 66257..66271 THEN TRUE ELSE IF c \in
            66300..66303 THEN TRUE ELSE FALSE ELSE IF c \in 66340..66348 THEN
            TRUE ELSE IF c \in 66379..66383 THEN TRUE ELSE IF c \in
            66427..66431 THEN TRUE ELSE FALSE ELSE IF c < 66718 THEN IF c =
            66462 THEN TRUE ELSE IF c \in 66500..66503 THEN TRUE ELSE IF c \in
            66518..66559 THEN TRUE ELSE FALSE ELSE IF c \in 66718..66719 THEN
            TRUE ELSE IF c \in 66730..66735 THEN TRUE ELSE IF c \in
            66772..66775 THEN TRUE ELSE FALSE ELSE IF c < 67383 THEN IF c <
            66963 THEN IF c < 66916 THEN IF c \in 66812..66815 THEN TRUE ELSE
            IF c \in 66856..66863 THEN TRUE ELSE FALSE ELSE IF c \in
            66916..66926 THEN TRUE ELSE IF c = 66939 THEN TRUE ELSE IF c =
            66955 THEN TRUE ELSE FALSE ELSE IF c < 66994 THEN IF c = 66963
            THEN TRUE ELSE IF c = 66966 THEN TRUE ELSE IF c = 66978 THEN TRUE
            ELSE FALSE ELSE IF c = 66994 THEN TRUE ELSE IF c = 67002 THEN TRUE
            ELSE IF c \in 67005..67071 THEN TRUE ELSE FALSE ELSE IF c < 67515
            THEN IF c < 67432 THEN IF c \in 67383..67391 THEN TRUE ELSE IF c
            \in 67414..67423 THEN TRUE ELSE FALSE ELSE IF c \in 67432..67455
            THEN TRUE ELSE IF c = 67462 THEN TRUE ELSE IF c = 67505 THEN TRUE
            ELSE FALSE ELSE IF c < 67638 THEN IF c \in 67515..67583 THEN TRUE
            ELSE IF c \in 67590..67591 THEN TRUE ELSE IF c = 67593 THEN TRUE
            ELSE FALSE ELSE IF c = 67638 THEN TRUE ELSE IF c \in 67641..67643
            THEN TRUE ELSE IF c \in 67645..67646 THEN TRUE ELSE FALSE ELSE IF
            c < 68438 THEN IF c < 68103 THEN IF c < 67868 THEN IF c < 67760
            THEN IF c = 67670 THEN TRUE ELSE IF c \in 67743..67750 THEN TRUE
            ELSE FALSE ELSE IF c \in 67760..67807 THEN TRUE ELSE IF c = 67827
            THEN TRUE ELSE IF c \in 67830..67834 THEN TRUE ELSE FALSE ELSE IF
            c < 68024 THEN IF c \in 67868..67870 THEN TRUE ELSE IF c \in
            67898..67902 THEN TRUE ELSE IF c \in 67904..67967 THEN TRUE ELSE
            FALSE ELSE IF c \in 68024..68027 THEN TRUE ELSE IF c \in
            68048..68049 THEN TRUE ELSE IF c = 68100 THEN TRUE ELSE FALSE ELSE
            IF c < 68169 THEN IF c < 68120 THEN IF c \in 68103..68107 THEN
            TRUE ELSE IF c = 68116 THEN TRUE ELSE FALSE ELSE IF c = 68120 THEN
            TRUE ELSE IF c \in 68150..68151 THEN TRUE ELSE IF c \in
            68155..68158 THEN TRUE ELSE FALSE ELSE IF c < 68327 THEN IF c \in
            68169..68175 THEN TRUE ELSE IF c \in 68185..68191 THEN TRUE ELSE
            IF c \in 68256..68287 THEN TRUE ELSE FALSE ELSE IF c \in
            68327..68330 THEN TRUE ELSE IF c \in 68343..68351 THEN TRUE ELSE
            IF c \in 68406..68408 THEN TRUE ELSE FALSE ELSE IF c < 69290 THEN
            IF c < 68681 THEN IF c < 68498 THEN IF c \in 68438..68439 THEN
            TRUE ELSE IF c \in 68467..68471 THEN TRUE ELSE FALSE ELSE IF c \in
            68498..68504 THEN TRUE ELSE IF c \in 68509..68520 THEN TRUE ELSE
            IF c \in 68528..68607 THEN TRUE ELSE FALSE ELSE IF c < 68904 THEN
            IF c \in 68681..68735 THEN TRUE ELSE IF c \in 68787..68799 THEN
            TRUE ELSE IF c \in 68851..68857 THEN TRUE ELSE FALSE ELSE IF c \in
            68904..68911 THEN TRUE ELSE IF c \in 68922..69215 THEN TRUE ELSE
            IF c = 69247 THEN TRUE ELSE FALSE ELSE IF c < 69514 THEN IF c <
            69298 THEN IF c = 69290 THEN TRUE ELSE IF c \in 69294..69295 THEN
            TRUE ELSE FALSE ELSE IF c \in 69298..69375 THEN TRUE ELSE IF c \in
            69416..69423 THEN TRUE ELSE IF c \in 69466..69487 THEN TRUE ELSE
            FALSE ELSE IF c < 69710 THEN IF c \in 69514..69551 THEN TRUE ELSE
            IF c \in 69580..69599 THEN TRUE ELSE IF c \in 69623..69631 THEN
            TRUE ELSE FALSE ELSE IF c \in 69710..69713 THEN TRUE ELSE IF c \in
            69750..69758 THEN TRUE ELSE IF c = 69821 THEN TRUE ELSE FALSE ELSE
            IF c < 71468 THEN IF c < 70452 THEN IF c < 70281 THEN IF c < 70007
            THEN IF c < 69882 THEN IF c \in 69827..69839 THEN TRUE ELSE IF c
            \in 69865..69871 THEN TRUE ELSE FALSE ELSE IF c \in 69882..69887
            THEN TRUE ELSE IF c = 69941 THEN TRUE ELSE IF c \in 69960..69967
            THEN TRUE ELSE FALSE ELSE IF c < 70162 THEN IF c \in 70007..70015
            THEN TRUE ELSE IF c = 70112 THEN TRUE ELSE IF c \in 70133..70143
            THEN TRUE ELSE FALSE ELSE IF c = 70162 THEN TRUE ELSE IF c \in
            70207..70271 THEN TRUE ELSE IF c = 70279 THEN TRUE ELSE FALSE ELSE
            IF c < 70394 THEN IF c < 70302 THEN IF c = 70281 THEN TRUE ELSE IF
            c = 70286 THEN TRUE ELSE FALSE ELSE IF c = 70302 THEN TRUE ELSE IF
            c \in 70314..70319 THEN TRUE ELSE IF c \in 70379..70383 THEN TRUE
            ELSE FALSE ELSE IF c < 70417 THEN IF c \in 70394..70399 THEN TRUE
            ELSE IF c = 70404 THEN TRUE ELSE IF c \in 70413..70414 THEN TRUE
            ELSE FALSE ELSE IF c \in 70417..70418 THEN TRUE ELSE IF c = 70441
            THEN TRUE ELSE IF c = 70449 THEN TRUE ELSE FALSE ELSE IF c < 70754
            THEN IF c < 70481 THEN IF c < 70469 THEN IF c = 70452 THEN TRUE
            ELSE IF c = 70458 THEN TRUE ELSE FALSE ELSE IF c \in 70469..70470
            THEN TRUE ELSE IF c \in 70473..70474 THEN TRUE ELSE IF c \in
            70478..70479 THEN TRUE ELSE FALSE ELSE IF c < 70509 THEN IF c \in
            70481..70486 THEN TRUE ELSE IF c \in 70488..70492 THEN TRUE ELSE
            IF c \in 70500..70501 THEN TRUE ELSE FALSE ELSE IF c \in
            70509..70511 THEN TRUE ELSE IF c \in 70517..70655 THEN TRUE ELSE
            IF c = 70748 THEN TRUE ELSE FALSE ELSE IF c < 71237 THEN IF c <
            70874 THEN IF c \in 70754..70783 THEN TRUE ELSE IF c \in
            70856..70863 THEN TRUE ELSE FALSE ELSE IF c \in 70874..71039 THEN
            TRUE ELSE IF c \in 71094..71095 THEN TRUE ELSE IF c \in
            71134..71167 THEN TRUE ELSE FALSE ELSE IF c < 71354 THEN IF c \in
            71237..71247 THEN TRUE ELSE IF c \in 71258..71263 THEN TRUE ELSE
            IF c \in 71277..71295 THEN TRUE ELSE FALSE ELSE IF c \in
            71354..71359 THEN TRUE ELSE IF c \in 71370..71423 THEN TRUE ELSE
            IF c \in 71451..71452 THEN TRUE ELSE FALSE ELSE IF c < 72848 THEN
            IF c < 72026 THEN IF c < 71946 THEN IF c < 71740 THEN IF c \in
            71468..71471 THEN TRUE ELSE IF c \in 71495..71679 THEN TRUE ELSE
            FALSE ELSE IF c \in 71740..71839 THEN TRUE ELSE IF c \in
            71923..71934 THEN TRUE ELSE IF c \in 71943..71944 THEN TRUE ELSE
            FALSE ELSE IF c < 71990 THEN IF c \in 71946..71947 THEN TRUE ELSE
            IF c = 71956 THEN TRUE ELSE IF c = 71959 THEN TRUE ELSE FALSE ELSE
            IF c = 71990 THEN TRUE ELSE IF c \in 71993..71994 THEN TRUE ELSE
            IF c \in 72007..72015 THEN TRUE ELSE FALSE ELSE IF c < 72355 THEN
            IF c < 72152 THEN IF c \in 72026..72095 THEN TRUE ELSE IF c \in
            72104..72105 THEN TRUE ELSE FALSE ELSE IF c \in 72152..72153 THEN
            TRUE ELSE IF c \in 72165..72191 THEN TRUE ELSE IF c \in
            72264..72271 THEN TRUE ELSE FALSE ELSE IF c < 72759 THEN IF c \in
            72355..72367 THEN TRUE ELSE IF c \in 72441..72703 THEN TRUE ELSE
            IF c = 72713 THEN TRUE ELSE FALSE ELSE IF c = 72759 THEN TRUE ELSE
            IF c \in 72774..72783 THEN TRUE ELSE IF c \in 72813..72815 THEN
            TRUE ELSE FALSE ELSE IF c < 73065 THEN IF c < 73015 THEN IF c <
            72887 THEN IF c \in 72848..72849 THEN TRUE ELSE IF c = 72872 THEN
            TRUE ELSE FALSE ELSE IF c \in 72887..72959 THEN TRUE ELSE IF c =
            72967 THEN TRUE ELSE IF c = 72970 THEN TRUE ELSE FALSE ELSE IF c <
            73032 THEN IF c \in 73015..73017 THEN TRUE ELSE IF c = 73019 THEN
            TRUE ELSE IF c = 73022 THEN TRUE ELSE FALSE ELSE IF c \in
            73032..73039 THEN TRUE ELSE IF c \in 73050..73055 THEN TRUE ELSE
            IF c = 73062 THEN TRUE ELSE FALSE ELSE IF c < 73465 THEN IF c <
            73106 THEN IF c = 73065 THEN TRUE ELSE IF c = 73103 THEN TRUE ELSE
            FALSE ELSE IF c = 73106 THEN TRUE ELSE IF c \in 73113..73119 THEN
            TRUE ELSE IF c \in 73130..73439 THEN TRUE ELSE FALSE ELSE IF c <
            74650 THEN IF c \in 73465..73647 THEN TRUE ELSE IF c \in
            73649..73663 THEN TRUE ELSE IF c \in 73714..73726 THEN TRUE ELSE
            FALSE ELSE IF c \in 74650..74751 THEN TRUE ELSE IF c = 74863 THEN
            TRUE ELSE IF c \in 74869..74879 THEN TRUE ELSE FALSE ELSE IF c <
            125125 THEN IF c < 119366 THEN IF c < 100344 THEN IF c < 92998
            THEN IF c < 92767 THEN IF c < 78895 THEN IF c \in 75076..77711
            THEN TRUE ELSE IF c \in 77811..77823 THEN TRUE ELSE FALSE ELSE IF
            c \in 78895..82943 THEN TRUE ELSE IF c \in 83527..92159 THEN TRUE
            ELSE IF c \in 92729..92735 THEN TRUE ELSE FALSE ELSE IF c < 92874
            THEN IF c = 92767 THEN TRUE ELSE IF c \in 92778..92781 THEN TRUE
            ELSE IF c = 92863 THEN TRUE ELSE FALSE ELSE IF c \in 92874..92879
            THEN TRUE ELSE IF c \in 92910..92911 THEN TRUE ELSE IF c \in
            92918..92927 THEN TRUE ELSE FALSE ELSE IF c < 93851 THEN IF c <
            93026 THEN IF c \in 92998..93007 THEN TRUE ELSE IF c = 93018 THEN
            TRUE ELSE FALSE ELSE IF c = 93026 THEN TRUE ELSE IF c \in
            93048..93052 THEN TRUE ELSE IF c \in 93072..93759 THEN TRUE ELSE
            FALSE ELSE IF c < 94112 THEN IF c \in 93851..93951 THEN TRUE ELSE
            IF c \in 94027..94030 THEN TRUE ELSE IF c \in 94088..94094 THEN
            TRUE ELSE FALSE ELSE IF c \in 94112..94175 THEN TRUE ELSE IF c \in
            94181..94191 THEN TRUE ELSE IF c \in 94194..94207 THEN TRUE ELSE
            FALSE ELSE IF c < 113789 THEN IF c < 110591 THEN IF c < 101641
            THEN IF c \in 100344..100351 THEN TRUE ELSE IF c \in
            101590..101631 THEN TRUE ELSE FALSE ELSE IF c \in 101641..110575
            THEN TRUE ELSE IF c = 110580 THEN TRUE ELSE IF c = 110588 THEN
            TRUE ELSE FALSE ELSE IF c < 110952 THEN IF c = 110591 THEN TRUE
            ELSE IF c \in 110883..110927 THEN TRUE ELSE IF c \in
            110931..110947 THEN TRUE ELSE FALSE ELSE IF c \in 110952..110959
            THEN TRUE ELSE IF c \in 111356..113663 THEN TRUE ELSE IF c \in
            113771..113775 THEN TRUE ELSE FALSE ELSE IF c < 118599 THEN IF c <
            113818 THEN IF c \in 113789..113791 THEN TRUE ELSE IF c \in
            113801..113807 THEN TRUE ELSE FALSE ELSE IF c \in 113818..113819
            THEN TRUE ELSE IF c \in 113824..118527 THEN TRUE ELSE IF c \in
            118574..118575 THEN TRUE ELSE FALSE ELSE IF c < 119079 THEN IF c
            \in 118599..118607 THEN TRUE ELSE IF c \in 118724..118783 THEN
            TRUE ELSE IF c \in 119030..119039 THEN TRUE ELSE FALSE ELSE IF c
            \in 119079..119080 THEN TRUE ELSE IF c \in 119155..119162 THEN
            TRUE ELSE IF c \in 119275..119295 THEN TRUE ELSE FALSE ELSE IF c <
            120486 THEN IF c < 119996 THEN IF c < 119965 THEN IF c < 119639
            THEN IF c \in 119366..119519 THEN TRUE ELSE IF c \in
            119540..119551 THEN TRUE ELSE FALSE ELSE IF c \in 119639..119647
            THEN TRUE ELSE IF c \in 119673..119807 THEN TRUE ELSE IF c =
            119893 THEN TRUE ELSE FALSE ELSE IF c < 119975 THEN IF c = 119965
            THEN TRUE ELSE IF c \in 119968..119969 THEN TRUE ELSE IF c \in
            119971..119972 THEN TRUE ELSE FALSE ELSE IF c \in 119975..119976
            THEN TRUE ELSE IF c = 119981 THEN TRUE ELSE IF c = 119994 THEN
            TRUE ELSE FALSE ELSE IF c < 120093 THEN IF c < 120070 THEN IF c =
            119996 THEN TRUE ELSE IF c = 120004 THEN TRUE ELSE FALSE ELSE IF c
            = 120070 THEN TRUE ELSE IF c \in 120075..120076 THEN TRUE ELSE IF
            c = 120085 THEN TRUE ELSE FALSE ELSE IF c < 120133 THEN IF c =
            120093 THEN TRUE ELSE IF c = 120122 THEN TRUE ELSE IF c = 120127
            THEN TRUE ELSE FALSE ELSE IF c = 120133 THEN TRUE ELSE IF c \in
            120135..120137 THEN TRUE ELSE IF c = 120145 THEN TRUE ELSE FALSE
            ELSE IF c < 123181 THEN IF c < 122655 THEN IF c < 121484 THEN IF c
            \in 120486..120487 THEN TRUE ELSE IF c \in 120780..120781 THEN
            TRUE ELSE FALSE ELSE IF c \in 121484..121498 THEN TRUE ELSE IF c =
            121504 THEN TRUE ELSE IF c \in 121520..122623 THEN TRUE ELSE FALSE
            ELSE IF c < 122914 THEN IF c \in 122655..122879 THEN TRUE ELSE IF
            c = 122887 THEN TRUE ELSE IF c \in 122905..122906 THEN TRUE ELSE
            FALSE ELSE IF c = 122914 THEN TRUE ELSE IF c = 122917 THEN TRUE
            ELSE IF c \in 122923..123135 THEN TRUE ELSE FALSE ELSE IF c <
            123642 THEN IF c < 123210 THEN IF c \in 123181..123183 THEN TRUE
            ELSE IF c \in 123198..123199 THEN TRUE ELSE FALSE ELSE IF c \in
            123210..123213 THEN TRUE ELSE IF c \in 123216..123535 THEN TRUE
            ELSE IF c \in 123567..123583 THEN TRUE ELSE FALSE ELSE IF c <
            124908 THEN IF c \in 123642..123646 THEN TRUE ELSE IF c \in
            123648..124895 THEN TRUE ELSE IF c = 124903 THEN TRUE ELSE FALSE
            ELSE IF c = 124908 THEN TRUE ELSE IF c = 124911 THEN TRUE ELSE IF
            c = 124927 THEN TRUE ELSE FALSE ELSE IF c < 127168 THEN IF c <
            126549 THEN IF c < 126504 THEN IF c < 126133 THEN IF c < 125260
            THEN IF c \in 125125..125126 THEN TRUE ELSE IF c \in
            125143..125183 THEN TRUE ELSE FALSE ELSE IF c \in 125260..125263
            THEN TRUE ELSE IF c \in 125274..125277 THEN TRUE ELSE IF c \in
            125280..126064 THEN TRUE ELSE FALSE ELSE IF c < 126496 THEN IF c
            \in 126133..126208 THEN TRUE ELSE IF c \in 126270..126463 THEN
            TRUE ELSE IF c = 126468 THEN TRUE ELSE FALSE ELSE IF c = 126496
            THEN TRUE ELSE IF c = 126499 THEN TRUE ELSE IF c \in
            126501..126502 THEN TRUE ELSE FALSE ELSE IF c < 126531 THEN IF c <
            126520 THEN IF c = 126504 THEN TRUE ELSE IF c = 126515 THEN TRUE
            ELSE FALSE ELSE IF c = 126520 THEN TRUE ELSE IF c = 126522 THEN
            TRUE ELSE IF c \in 126524..126529 THEN TRUE ELSE FALSE ELSE IF c <
            126540 THEN IF c \in 126531..126534 THEN TRUE ELSE IF c = 126536
            THEN TRUE ELSE IF c = 126538 THEN TRUE ELSE FALSE ELSE IF c =
            126540 THEN TRUE ELSE IF c = 126544 THEN TRUE ELSE IF c = 126547
            THEN TRUE ELSE FALSE ELSE IF c < 126589 THEN IF c < 126560 THEN IF
            c < 126554 THEN IF c \in 126549..126550 THEN TRUE ELSE IF c =
            126552 THEN TRUE ELSE FALSE ELSE IF c = 126554 THEN TRUE ELSE IF c
            = 126556 THEN TRUE ELSE IF c = 126558 THEN TRUE ELSE FALSE ELSE IF
            c < 126571 THEN IF c = 126560 THEN TRUE ELSE IF c = 126563 THEN
            TRUE ELSE IF c \in 126565..126566 THEN TRUE ELSE FALSE ELSE IF c =
            126571 THEN TRUE ELSE IF c = 126579 THEN TRUE ELSE IF c = 126584
            THEN TRUE ELSE FALSE ELSE IF c < 126634 THEN IF c < 126602 THEN IF
            c = 126589 THEN TRUE ELSE IF c = 126591 THEN TRUE ELSE FALSE ELSE
            IF c = 126602 THEN TRUE ELSE IF c \in 126620..126624 THEN TRUE
            ELSE IF c = 126628 THEN TRUE ELSE FALSE ELSE IF c < 127020 THEN IF
            c = 126634 THEN TRUE ELSE IF c \in 126652..126703 THEN TRUE ELSE
            IF c \in 126706..126975 THEN TRUE ELSE FALSE ELSE IF c \in
            127020..127023 THEN TRUE ELSE IF c \in 127124..127135 THEN TRUE
            ELSE IF c \in 127151..127152 THEN TRUE ELSE FALSE ELSE IF c <
            129620 THEN IF c < 128765 THEN IF c < 127548 THEN IF c < 127222
            THEN IF c = 127168 THEN TRUE ELSE IF c = 127184 THEN TRUE ELSE
            FALSE ELSE IF c \in 127222..127231 THEN TRUE ELSE IF c \in
            127406..127461 THEN TRUE ELSE IF c \in 127491..127503 THEN TRUE
            ELSE FALSE ELSE IF c < 127590 THEN IF c \in 127548..127551 THEN
            TRUE ELSE IF c \in 127561..127567 THEN TRUE ELSE IF c \in
            127570..127583 THEN TRUE ELSE FALSE ELSE IF c \in 127590..127743
            THEN TRUE ELSE IF c \in 128728..128732 THEN TRUE ELSE IF c \in
            128749..128751 THEN TRUE ELSE FALSE ELSE IF c < 129036 THEN IF c <
            128985 THEN IF c \in 128765..128767 THEN TRUE ELSE IF c \in
            128884..128895 THEN TRUE ELSE FALSE ELSE IF c \in 128985..128991
            THEN TRUE ELSE IF c \in 129004..129007 THEN TRUE ELSE IF c \in
            129009..129023 THEN TRUE ELSE FALSE ELSE IF c < 129160 THEN IF c
            \in 129036..129039 THEN TRUE ELSE IF c \in 129096..129103 THEN
            TRUE ELSE IF c \in 129114..129119 THEN TRUE ELSE FALSE ELSE IF c
            \in 129160..129167 THEN TRUE ELSE IF c \in 129198..129199 THEN
            TRUE ELSE IF c \in 129202..129279 THEN TRUE ELSE FALSE ELSE IF c <
            129939 THEN IF c < 129709 THEN IF c < 129653 THEN IF c \in
            129620..129631 THEN TRUE ELSE IF c \in 129646..129647 THEN TRUE
            ELSE FALSE ELSE IF c \in 129653..129655 THEN TRUE ELSE IF c \in
            129661..129663 THEN TRUE ELSE IF c \in 129671..129679 THEN TRUE
            ELSE FALSE ELSE IF c < 129754 THEN IF c \in 129709..129711 THEN
            TRUE ELSE IF c \in 129723..129727 THEN TRUE ELSE IF c \in
            129734..129743 THEN TRUE ELSE FALSE ELSE IF c \in 129754..129759
            THEN TRUE ELSE IF c \in 129768..129775 THEN TRUE ELSE IF c \in
            129783..129791 THEN TRUE ELSE FALSE ELSE IF c < 178206 THEN IF c <
            130042 THEN IF c = 129939 THEN TRUE ELSE IF c \in 129995..130031
            THEN TRUE ELSE FALSE ELSE IF c \in 130042..131071 THEN TRUE ELSE
            IF c \in 173792..173823 THEN TRUE ELSE IF c \in 177977..177983
            THEN TRUE ELSE FALSE ELSE IF c < 195102 THEN IF c \in
            178206..178207 THEN TRUE ELSE IF c \in 183970..183983 THEN TRUE
            ELSE IF c \in 191457..194559 THEN TRUE ELSE FALSE ELSE IF c \in
            195102..196607 THEN TRUE ELSE IF c \in 201547..917759 THEN TRUE
            ELSE IF c \in 918000..1114111 THEN TRUE ELSE FALSE
        \* format(n, "0<w>x")
        RECURSIVE Hex(_, _)
        Hex(n, w) ==
            IF w = 0 THEN <<>>
            ELSE Hex(n \div 16, w - 1)
                 \o <<IF n % 16 < 10 THEN 48 + (n % 16) ELSE 87 + (n % 16)>>
        Escaped(c) ==
            IF c = quote \/ c = 92 THEN <<92, c>>
            ELSE IF c = 9 THEN <<92, 116>>
            ELSE IF c = 10 THEN <<92, 110>>
            ELSE IF c = 13 THEN <<92, 114>>
            ELSE IF c < 32 \/ c = 127 THEN <<92, 120>> \o Hex(c, 2)
            ELSE IF c < 127 \/ ~unprintable(c) THEN <<c>>
            ELSE IF c <= 255 THEN <<92, 120>> \o Hex(c, 2)
            ELSE IF c <= 65535 THEN <<92, 117>> \o Hex(c, 4)
            ELSE <<92, 85>> \o Hex(c, 8)
    IN  <<quote>> \o Flatten([i \in 1..Len(s) |-> Escaped(s[i])]) \o <<quote>>

\* a float: [k |-> "nan" | "inf" | "fin", neg, digits, decpt].  A finite one is
\* the double nearest to (-1)^neg * 0.digits * 10^decpt, digits being a str of
\* ASCII digits with no zero at either end; zero has no digits and decpt 0.
\* FloatValue is the float of a decimal numeral, as float() rounds it: from
\* over on (2^1024 - 2^970, half way from the largest double to 2^1024) it is
\* inf, and up to under (2^-1075, half of the smallest double) it is zero
FloatValue(neg, digits, decpt) ==
    LET over == [decpt |-> 309, digits |->
            D(<< 1, 7, 9, 7, 6, 9, 3, 1, 3, 4, 8, 6, 2, 3, 1, 5, 8, 0, 7, 9, 3, 7, 2, 8,
              9, 7, 1, 4, 0, 5, 3, 0, 3, 4, 1, 5, 0, 7, 9, 9, 3, 4, 1, 3, 2, 7, 1, 0,
              0, 3, 7, 8, 2, 6, 9, 3, 6, 1, 7, 3, 7, 7, 8, 9, 8, 0, 4, 4, 4, 9, 6, 8,
              2, 9, 2, 7, 6, 4, 7, 5, 0, 9, 4, 6, 6, 4, 9, 0, 1, 7, 9, 7, 7, 5, 8, 7,
              2, 0, 7, 0, 9, 6, 3, 3, 0, 2, 8, 6, 4, 1, 6, 6, 9, 2, 8, 8, 7, 9, 1, 0,
              9, 4, 6, 5, 5, 5, 5, 4, 7, 8, 5, 1, 9, 4, 0, 4, 0, 2, 6, 3, 0, 6, 5, 7,
              4, 8, 8, 6, 7, 1, 5, 0, 5, 8, 2, 0, 6, 8, 1, 9, 0, 8, 9, 0, 2, 0, 0, 0,
              7, 0, 8, 3, 8, 3, 6, 7, 6, 2, 7, 3, 8, 5, 4, 8, 4, 5, 8, 1, 7, 7, 1, 1,
              5, 3, 1, 7, 6, 4, 4, 7, 5, 7, 3, 0, 2, 7, 0, 0, 6, 9, 8, 5, 5, 5, 7, 1,
              3, 6, 6, 9, 5, 9, 6, 2, 2, 8, 4, 2, 9, 1, 4, 8, 1, 9, 8, 6, 0, 8, 3, 4,
              9, 3, 6, 4, 7, 5, 2, 9, 2, 7, 1, 9, 0, 7, 4, 1, 6, 8, 4, 4, 4, 3, 6, 5,
              5, 1, 0, 7, 0, 4, 3, 4, 2, 7, 1, 1, 5, 5, 9, 6, 9, 9, 5, 0, 8, 0, 9, 3,
              0, 4, 2, 8, 8, 0, 1, 7, 7, 9, 0, 4, 1, 7, 4, 4, 9, 7, 7, 9, 2 >>)]
        under == [decpt |-> -323, digits |->
            D(<< 2, 4, 7, 0, 3, 2, 8, 2, 2, 9, 2, 0, 6, 2, 3, 2, 7, 2, 0, 8, 8, 2, 8, 4,
              3, 9, 6, 4, 3, 4, 1, 1, 0, 6, 8, 6, 1, 8, 2, 5, 2, 9, 9, 0, 1, 3, 0, 7,
              1, 6, 2, 3, 8, 2, 2, 1, 2, 7, 9, 2, 8, 4, 1, 2, 5, 0, 3, 3, 7, 7, 5, 3,
              6, 3, 5, 1, 0, 4, 3, 7, 5, 9, 3, 2, 6, 4, 9, 9, 1, 8, 1, 8, 0, 8, 1, 7,
              9, 9, 6, 1, 8, 9, 8, 9, 8, 2, 8, 2, 3, 4, 7, 7, 2, 2, 8, 5, 8, 8, 6, 5,
              4, 6, 3, 3, 2, 8, 3, 5, 5, 1, 7, 7, 9, 6, 9, 8, 9, 8, 1, 9, 9, 3, 8, 7,
              3, 9, 8, 0, 0, 5, 3, 9, 0, 9, 3, 9, 0, 6, 3, 1, 5, 0, 3, 5, 6, 5, 9, 5,
              1, 5, 5, 7, 0, 2, 2, 6, 3, 9, 2, 2, 9, 0, 8, 5, 8, 3, 9, 2, 4, 4, 9, 1,
              0, 5, 1, 8, 4, 4, 3, 5, 9, 3, 1, 8, 0, 2, 8, 4, 9, 9, 3, 6, 5, 3, 6, 1,
              5, 2, 5, 0, 0, 3, 1, 9, 3, 7, 0, 4, 5, 7, 6, 7, 8, 2, 4, 9, 2, 1, 9, 3,
              6, 5, 6, 2, 3, 6, 6, 9, 8, 6, 3, 6, 5, 8, 4, 8, 0, 7, 5, 7, 0, 0, 1, 5,
              8, 5, 7, 6, 9, 2, 6, 9, 9, 0, 3, 7, 0, 6, 3, 1, 1, 9, 2, 8, 2, 7, 9, 5,
              5, 8, 5, 5, 1, 3, 3, 2, 9, 2, 7, 8, 3, 4, 3, 3, 8, 4, 0, 9, 3, 5, 1, 9,
              7, 8, 0, 1, 5, 5, 3, 1, 2, 4, 6, 5, 9, 7, 2, 6, 3, 5, 7, 9, 5, 7, 4, 6,
              2, 2, 7, 6, 6, 4, 6, 5, 2, 7, 2, 8, 2, 7, 2, 2, 0, 0, 5, 6, 3, 7, 4, 0,
              0, 6, 4, 8, 5, 4, 9, 9, 9, 7, 7, 0, 9, 6, 5, 9, 9, 4, 7, 0, 4, 5, 4, 0,
              2, 0, 8, 2, 8, 1, 6, 6, 2, 2, 6, 2, 3, 7, 8, 5, 7, 3, 9, 3, 4, 5, 0, 7,
              3, 6, 3, 3, 9, 0, 0, 7, 9, 6, 7, 7, 6, 1, 9, 3, 0, 5, 7, 7, 5, 0, 6, 7,
              4, 0, 1, 7, 6, 3, 2, 4, 6, 7, 3, 6, 0, 0, 9, 6, 8, 9, 5, 1, 3, 4, 0, 5,
              3, 5, 5, 3, 7, 4, 5, 8, 5, 1, 6, 6, 6, 1, 1, 3, 4, 2, 2, 3, 7, 6, 6, 6,
              7, 8, 6, 0, 4, 1, 6, 2, 1, 5, 9, 6, 8, 0, 4, 6, 1, 9, 1, 4, 4, 6, 7, 2,
              9, 1, 8, 4, 0, 3, 0, 0, 5, 3, 0, 0, 5, 7, 5, 3, 0, 8, 4, 9, 0, 4, 8, 7,
              6, 5, 3, 9, 1, 7, 1, 1, 3, 8, 6, 5, 9, 1, 6, 4, 6, 2, 3, 9, 5, 2, 4, 9,
              1, 2, 6, 2, 3, 6, 5, 3, 8, 8, 1, 8, 7, 9, 6, 3, 6, 2, 3, 9, 3, 7, 3, 2,
              8, 0, 4, 2, 3, 8, 9, 1, 0, 1, 8, 6, 7, 2, 3, 4, 8, 4, 9, 7, 6, 6, 8, 2,
              3, 5, 0, 8, 9, 8, 6, 3, 3, 8, 8, 5, 8, 7, 9, 2, 5, 6, 2, 8, 3, 0, 2, 7,
              5, 5, 9, 9, 5, 6, 5, 7, 5, 2, 4, 4, 5, 5, 5, 0, 7, 2, 5, 5, 1, 8, 9, 3,
              1, 3, 6, 9, 0, 8, 3, 6, 2, 5, 4, 7, 7, 9, 1, 8, 6, 9, 4, 8, 6, 6, 7, 9,
              9, 4, 9, 6, 8, 3, 2, 4, 0, 4, 9, 7, 0, 5, 8, 2, 1, 0, 2, 8, 5, 1, 3, 1,
              8, 5, 4, 5, 1, 3, 9, 6, 2, 1, 3, 8, 3, 7, 7, 2, 2, 8, 2, 6, 1, 4, 5, 4,
              3, 7, 6, 9, 3, 4, 1, 2, 5, 3, 2, 0, 9, 8, 5, 9, 1, 3, 2, 7, 6, 6, 7, 2,
              3, 6, 3, 2, 8, 1, 2, 5 >>)]
        \* the fraction 0.a is less than the fraction 0.b
        DigitsLess(a, b) ==
            LET at(s, i) == IF i <= Len(s) THEN s[i] ELSE 48
                n == IF Len(a) < Len(b) THEN Len(b) ELSE Len(a)
                differ == {i \in 1..n : at(a, i) # at(b, i)}
            IN  differ # {} /\ Let(CHOOSE i \in differ : \A j \in differ : i <= j,
                                   LAMBDA i : at(a, i) < at(b, i))
        nz == {i \in 1..Len(digits) : digits[i] # 48}
        zero == [k |-> "fin", neg |-> neg, digits |-> <<>>, decpt |-> 0]
    IN  IF nz = {} THEN zero
        ELSE Let(CHOOSE i \in nz : \A j \in nz : i <= j, LAMBDA first :
             Let(CHOOSE i \in nz : \A j \in nz : j <= i, LAMBDA last :
             Let(SubSeq(digits, first, last), LAMBDA d :
             Let(decpt - (first - 1), LAMBDA e :
                 IF e > over.decpt \/ (e = over.decpt /\ ~DigitsLess(d, over.digits))
                 THEN [k |-> "inf", neg |-> neg, digits |-> <<>>, decpt |-> 0]
                 ELSE IF e < under.decpt
                         \/ (e = under.decpt /\ ~DigitsLess(under.digits, d))
                 THEN zero
                 ELSE [k |-> "fin", neg |-> neg, digits |-> d, decpt |-> e]))))

\* float(s) of a str; [k |-> "error"] where it raises ValueError.  Spaces and
\* decimal digits beyond ASCII are first replaced by ' ' and by ASCII digits
\* (the text ends at the first other character beyond ASCII, replaced by '?'),
\* the ASCII blanks at both ends are dropped, an underscore must stand between
\* two digits, and what is left is [sign] inf | infinity | nan, in any case, or
\* [sign] digits [. [digits]] [e [sign] digits] with a digit in the mantissa
float_of_str(s) ==
    LET error == [k |-> "error", neg |-> FALSE, digits |-> <<>>, decpt |-> 0]
        Ascii(x) ==
            IF \A i \in 1..Len(x) : x[i] < 128 THEN x
            ELSE Let({i \in 1..Len(x) : x[i] >= 127 /\ ~IsSpace(x[i]) /\ ~IsDigit(x[i])},
                     LAMBDA other :
                     [i \in 1..(IF other = {} THEN Len(x)
                                ELSE CHOOSE i \in other : \A j \in other : i <= j) |->
                         IF x[i] < 127 THEN x[i]
                         ELSE IF IsSpace(x[i]) THEN 32
                         ELSE IF IsDigit(x[i]) THEN 48 + DigitValue(x[i])
                         ELSE 63])
        Trimmed(x) ==
            Let({i \in 1..Len(x) : ~(x[i] \in 9..13 \/ x[i] = 32)}, LAMBDA solid :
                IF solid = {} THEN <<>>
                ELSE SubSeq(x, CHOOSE i \in solid : \A j \in solid : i <= j,
                               CHOOSE i \in solid : \A j \in solid : j <= i))
        Underscores(t) ==
            \A i \in 1..Len(t) : t[i] = 95 =>
                /\ i > 1 /\ IsAsciiDigit(t[i - 1])
                /\ i < Len(t) /\ IsAsciiDigit(t[i + 1])
        \* the number of ASCII digits of u from position p on
        Run(u, p) == Cardinality({q \in p..Len(u) : \A r \in p..q : IsAsciiDigit(u[r])})
        Lower(u) == [i \in 1..Len(u) |-> IF u[i] \in 65..90 THEN u[i] + 32 ELSE u[i]]
        \* the exponent; beyond seven digits it is past every double either way
        Exponent(ds) ==
            Let({i \in 1..Len(ds) : ds[i] # 48}, LAMBDA nz :
                IF nz = {} THEN 0
                ELSE Let(CHOOSE i \in nz : \A j \in nz : i <= j, LAMBDA first :
                         IF Len(ds) - first + 1 > 7 THEN 10000000
                         ELSE ToInt(SubSeq(ds, first, Len(ds)))))
        Numeral(u, neg, p0) ==
            Let(Run(u, p0), LAMBDA i1 :
            Let(p0 + i1 <= Len(u) /\ u[p0 + i1] = 46, LAMBDA dot :
            Let(p0 + i1 + (IF dot THEN 1 ELSE 0), LAMBDA p1 :
            Let(IF dot THEN Run(u, p1) ELSE 0, LAMBDA i2 :
            Let(p1 + i2, LAMBDA p2 :
            Let(p2 <= Len(u) /\ u[p2] \in {69, 101}, LAMBDA hasExp :
            Let(hasExp /\ p2 + 1 <= Len(u) /\ u[p2 + 1] \in {43, 45}, LAMBDA expSigned :
            Let(p2 + 1 + (IF expSigned THEN 1 ELSE 0), LAMBDA p3 :
            Let(IF hasExp THEN Run(u, p3) ELSE 0, LAMBDA i3 :
                IF i1 + i2 >= 1
                   /\ (IF hasExp THEN i3 >= 1 /\ p3 + i3 = Len(u) + 1 ELSE p2 = Len(u) + 1)
                THEN Let(Exponent(SubSeq(u, p3, p3 + i3 - 1)), LAMBDA exp :
                         FloatValue(neg,
                             SubSeq(u, p0, p0 + i1 - 1) \o SubSeq(u, p1, p1 + i2 - 1),
                             IF expSigned /\ u[p2 + 1] = 45 THEN i1 - exp ELSE i1 + exp))
                ELSE error)))))))))
        Signed(u) ==
            Let(IF u[1] \in {43, 45} THEN 2 ELSE 1, LAMBDA p0 :
            Let(Lower(SubSeq(u, p0, Len(u))), LAMBDA word :
                IF word = <<105, 110, 102>>
                   \/ word = <<105, 110, 102, 105, 110, 105, 116, 121>>
                THEN [k |-> "inf", neg |-> u[1] = 45, digits |-> <<>>, decpt |-> 0]
                ELSE IF word = <<110, 97, 110>>
                THEN [k |-> "nan", neg |-> FALSE, digits |-> <<>>, decpt |-> 0]
                ELSE Numeral(u, u[1] = 45, p0)))
    IN  Let(Trimmed(Ascii(s)), LAMBDA t :
            IF t = <<>> \/ ~Underscores(t) THEN error ELSE Signed(RemoveChar(t, 95)))

RECURSIVE PyRepr(_)
\* repr(v) of a value of the parsed JSON.  A float is written 'nan', 'inf', or
\* with the shortest digits that give it back, with an exponent when decpt is
\* not in -3..16; the digits of the model's float are those digits when there
\* are at most 15 of them and the float is a normal double
\* (sys.float_info.dig), and a JSON float of the model is written so
PyRepr(v) ==
    LET RECURSIVE Joined(_)
        \* ", ".join(parts)
        Joined(parts) ==
            IF parts = <<>> THEN <<>>
            ELSE IF Len(parts) = 1 THEN parts[1]
            ELSE parts[1] \o <<44, 32>> \o Joined(Tail(parts))
        zeros(m) == [i \in 1..m |-> 48]
        FloatRepr(x) ==
            LET sign == IF x.neg THEN <<45>> ELSE <<>>
                n == Len(x.digits)
                e == x.decpt - 1
            IN  IF x.k = "nan" THEN <<110, 97, 110>>
                ELSE IF x.k = "inf" THEN sign \o <<105, 110, 102>>
                ELSE IF n = 0 THEN sign \o <<48, 46, 48>>
                ELSE IF x.decpt > 16 \/ x.decpt < -3
                THEN sign \o <<x.digits[1]>>
                     \o (IF n > 1 THEN <<46>> \o SubSeq(x.digits, 2, n) ELSE <<>>)
                     \o <<101, IF e < 0 THEN 45 ELSE 43>>
                     \o ZeroPad(IF e < 0 THEN 0 - e ELSE e, 2)
                ELSE IF x.decpt <= 0
                THEN sign \o <<48, 46>> \o zeros(0 - x.decpt) \o x.digits
                ELSE IF x.decpt >= n
                THEN sign \o x.digits \o zeros(x.decpt - n) \o <<46, 48>>
                ELSE sign \o SubSeq(x.digits, 1, x.decpt) \o <<46>>
                     \o SubSeq(x.digits, x.decpt + 1, n)
    IN  CASE v.t = "null" -> <<78, 111, 110, 101>>
          [] v.t = "bool" -> IF v.b THEN <<84, 114, 117, 101>> ELSE <<70, 97, 108, 115, 101>>
          [] v.t = "num" -> (IF v.neg THEN <<45>> ELSE <<>>) \o v.digits
          [] v.t = "float" -> FloatRepr(v.x)
          [] v.t = "str" -> StrRepr(v.s)
          [] v.t = "list" ->
                <<91>> \o Joined([i \in 1..Len(v.items) |-> PyRepr(v.items[i])]) \o <<93>>
          [] v.t = "dict" ->
                <<123>> \o Joined([i \in 1..Len(v.items) |->
                                      StrRepr(v.items[i][1]) \o <<58, 32>>
                                      \o PyRepr(v.items[i][2])])
                        \o <<125>>

\* str(v) of a value of the parsed JSON
PyStr(v) == IF v.t = "str" THEN v.s ELSE PyRepr(v)

\* _safe_float(v, 0.0): float(v), and 0.0 where float raises (None, a dict, a
\* list, a str that is no numeral, an int too large to convert: where a
\* numeral of that size gives inf, float(int) raises OverflowError)
_safe_float(v) ==
    CASE v.t = "num" ->
            Let(FloatValue(v.neg, v.digits, Len(v.digits)), LAMBDA x :
                IF x.k = "inf" THEN FloatValue(FALSE, <<>>, 0) ELSE x)
      [] v.t = "bool" -> FloatValue(FALSE, IF v.b THEN <<49>> ELSE <<48>>, 1)
      [] v.t = "float" -> v.x
      [] v.t = "str" ->
            Let(float_of_str(v.s), LAMBDA x :
                IF x.k = "error" THEN FloatValue(FALSE, <<>>, 0) ELSE x)
      [] OTHER -> FloatValue(FALSE, <<>>, 0)

\* obj.pop(key, {}) or {}, then .items() if it is a dict else []
PoppedItems(obj, key) ==
    IF key \in DOMAIN obj /\ obj[key].t = "dict"
    THEN Let(obj[key].items, LAMBDA items :
             [k \in {items[i][1] : i \in 1..Len(items)} |->
                 items[CHOOSE i \in 1..Len(items) : items[i][1] = k][2]])
    ELSE <<>>

\* lines 130-141: the result built from a non-empty dict obj; obj.get reads
\* obj after the two keys were popped from it
AnswerResult(obj, schema_fields, content) ==
    [values |-> [f \in Range(schema_fields) |->
                    IF f \in DOMAIN obj \ {KEY_EVIDENCE, KEY_CONFIDENCE} /\ obj[f].t # "null"
                    THEN Strip(PyStr(obj[f])) ELSE <<>>],
     evidence |-> Let(PoppedItems(obj, KEY_EVIDENCE), LAMBDA evidence :
                      [k \in DOMAIN evidence |-> Strip(PyStr(evidence[k]))]),
     confidence |-> Let(PoppedItems(obj, KEY_CONFIDENCE), LAMBDA conf :
                        [k \in DOMAIN conf |-> _safe_float(conf[k])]),
     raw_text |-> content,
     error |-> ""]

\* schema_fields = [f for f in missing_fields if f in headers_all]
SchemaFields(missing_fields, headers_all) ==
    SelectSeq(missing_fields, LAMBDA f : f \in Range(headers_all))

(***************************************************************************)
(* SpecAI: one call of ai_fill_missing_fields against a service whose      *)
(* reply to each post is any of AI_REPLIES.                                *)
(***************************************************************************)

MaxRetry == 2

\* what one pass of the try block meets: _post_perplexity raises ("raise"),
\* data["choices"][0]["message"]["content"] raises ("shape"), or there is a
\* content ("content")
AI_REPLIES ==
    LET F1 == HEADERS[1]
        F2 == HEADERS[2]
        str(s) == [t |-> "str", s |-> s]
        num(n) == [t |-> "num", neg |-> n < 0, digits |-> Decimal(IF n < 0 THEN 0 - n ELSE n)]
        \* 10 ** zeros, an int beyond every double where zeros > 308
        power(zeros) == [t |-> "num", neg |-> FALSE,
                         digits |-> [i \in 1..(zeros + 1) |-> IF i = 1 THEN 49 ELSE 48]]
        float(digits, decpt) == [t |-> "float", x |-> FloatValue(FALSE, digits, decpt)]
        dict(items) == [t |-> "dict", items |-> items]
        list(items) == [t |-> "list", items |-> items]
        Content(kind, obj) == [kind |-> "content", content |-> [kind |-> kind, obj |-> obj]]
    IN  { [kind |-> "raise", err |-> "ConnectionError: refused"],
          [kind |-> "raise", err |-> "HTTPError: 500 Server Error"],
          [kind |-> "shape", err |-> "KeyError: 'choices'"],
          Content("none", <<>>),
          Content("prose", <<>>),
          Content("broken", <<>>),
          Content("json", <<>>),
          Content("json", (F1 :> str(<<32, 65, 98, 32>>)) @@ (F2 :> [t |-> "null"])),
          Content("wrapped", (F1 :> num(50))
                             @@ (KEY_EVIDENCE :> dict(<< <<F1, str(<<53, 48, 32>>)>> >>))
                             @@ (KEY_CONFIDENCE :> dict(<< <<F1, num(1)>> >>))),
          Content("json", (F1 :> str(<<65>>)) @@ (EXTRA_KEY :> str(<<66>>))
                          @@ (KEY_EVIDENCE :> dict(<< <<F1, str(<<65>>)>>, <<F2, [t |-> "null"]>> >>))
                          @@ (KEY_CONFIDENCE :> dict(<< <<F1, str(<<32, 46, 57, 32>>)>>,
                                                        <<EXTRA_KEY, str(<<104, 105>>)>> >>))),
          Content("json", (F2 :> str(<<>>)) @@ (KEY_EVIDENCE :> list(<<str(<<65>>)>>))
                          @@ (KEY_CONFIDENCE :> [t |-> "null"])),
          Content("json", (F1 :> num(-5)) @@ (F2 :> dict(<< <<<<97>>, num(1)>> >>))
                          @@ (KEY_EVIDENCE :> dict(<< <<F1, list(<<str(<<120>>), [t |-> "bool", b |-> TRUE]>>)>> >>))
                          @@ (KEY_CONFIDENCE :> dict(<< <<F1, float(<<57>>, 0)>>,
                                                        <<F2, str(<<110, 97, 110>>)>>,
                                                        <<EXTRA_KEY, power(400)>> >>))) }

AIInputs ==
    LET F1 == HEADERS[1]
        F2 == HEADERS[2]
    IN  [api_key : {"", "pplx-key"},
         missing_fields : {<<>>, <<F1>>, <<F1, F2>>, <<F2, EXTRA_KEY>>, <<EXTRA_KEY>>},
         headers_all : {HEADERS},
         retry : (-1)..MaxRetry]

AIInit ==
    /\ pc = "ready"
    /\ inp \in AIInputs
    /\ out = <<>>
    /\ passes = 0
    /\ AIIdle
    /\ BatchIdle

\* lines 77-122, 147: the missing key is answered at once; otherwise the loop
\* starts, and with nothing in range(retry + 1) the call returns right away
AiCall ==
    /\ pc = "ready"
    /\ IF inp.api_key = ""
       THEN /\ out' = ErrorResult("", "Missing PERPLEXITY_API_KEY")
            /\ pc' = "done"
       ELSE IF inp.retry + 1 <= 0
       THEN /\ out' = ErrorResult("", last_err)
            /\ pc' = "done"
       ELSE /\ out' = out
            /\ pc' = "attempt"
    /\ UNCHANGED <<inp, passes, aiVars, batchVars>>

\* lines 123-125, 143-145: a pass whose try block raises; the text of the
\* exception is kept and the call enters time.sleep(0.6)
AiAttemptRaises ==
    /\ pc = "attempt"
    /\ \E reply \in {r \in AI_REPLIES : r.kind \in {"raise", "shape"}} :
          /\ posts' = posts + 1
          /\ last_err' = reply.err
    /\ pc' = "sleep"
    /\ UNCHANGED <<inp, out, passes, attempt, slept, batchVars>>

\* lines 145, 122, 147: the sleep is over (slept counts tenths of a second);
\* the loop goes on with the next attempt, or is exhausted and the call
\* returns the last error
AiSleepEnds ==
    /\ pc = "sleep"
    /\ slept' = slept + 6
    /\ IF attempt = inp.retry
       THEN /\ out' = ErrorResult("", last_err)
            /\ pc' = "done"
            /\ attempt' = attempt
       ELSE /\ out' = out
            /\ pc' = "attempt"
            /\ attempt' = attempt + 1
    /\ UNCHANGED <<inp, passes, posts, last_err, batchVars>>

\* lines 123-141: a pass whose post brings a content; it returns
AiAttemptReturns ==
    /\ pc = "attempt"
    /\ \E reply \in {r \in AI_REPLIES : r.kind = "content"} :
          /\ posts' = posts + 1
          /\ out' = Let(_extract_json_block(reply.content), LAMBDA obj :
                        IF obj = [t |-> "null"] \/ obj = <<>>
                        THEN ErrorResult(reply.content, "AI returned non-JSON")
                        ELSE AnswerResult(obj,
                                 SchemaFields(inp.missing_fields, inp.headers_all),
                                 reply.content))
          /\ pc' = "done"
    /\ UNCHANGED <<inp, passes, attempt, slept, last_err, batchVars>>

SpecAI ==
    AIInit /\ [][AiCall \/ AiAttemptRaises \/ AiSleepEnds \/ AiAttemptReturns]_vars

\* C6: a call that had a key and ends with an error has made all retry + 1
\* attempts, and carries no values, evidence or confidence
C6_ErrorOnlyWhenExhausted ==
    (pc = "done" /\ inp.api_key # "" /\ out.error # "") =>
        /\ posts = inp.retry + 1
        /\ out.values = <<>> /\ out.evidence = <<>> /\ out.confidence = <<>>

\* C7: the keys of the returned values, evidence and confidence are all
\* requested missing fields of the schema
C7_OnlyRequestedKeys ==
    pc = "done" =>
        Let(Range(SchemaFields(inp.missing_fields, inp.headers_all)), LAMBDA requested :
            /\ DOMAIN out.values \subseteq requested
            /\ DOMAIN out.evidence \subseteq requested
            /\ DOMAIN out.confidence \subseteq requested)

(***************************************************************************)
(* process_files (src/app.py)                                              *)
(*                                                                         *)
(* An uploaded file is its name, the number of bytes read() gives, the     *)
(* texts pdfplumber gives for its pages, and the statement of the loop     *)
(* body that raises for it, if any: "read" (f.read()), "extract"           *)
(* (extract_text_from_pdf_bytes), "parse" (parse_contract), "log" (the     *)
(* logs.append statement of the branch taken) or "debug" (the              *)
(* debug_items.append statement of the branch taken).  The statements of   *)
(* the except block do not raise.  The timestamp of a log entry is left    *)
(* out, a percent is in tenths, and the note of a debug item is the text   *)
(* after "Quality " or "ERROR: ".                                          *)
(***************************************************************************)

\* len(pdf_bytes) < 50
MIN_PDF_BYTES == 50

\* pct < 20, in tenths of a percent
LOW_QUALITY_PCT == 200

\* safe_snip(normalized_text, 120)
SNIP_LINES == 120

extract_raw_and_normalized_text(pages) ==
    Let(JoinLines([n \in 1..Len(pages) |-> normalize_text(pages[n])]), LAMBDA raw :
        [raw |-> raw, normalized |-> normalize_contract_text(raw)])

extract_text_from_pdf_bytes(pages) == extract_raw_and_normalized_text(pages).normalized

\* "\n".join(s.splitlines()[:max_lines]), "" for an empty s
safe_snip(s, max_lines) ==
    IF s = <<>> THEN <<>>
    ELSE Let(SplitLines(s), LAMBDA lines :
             JoinLines(SubSeq(lines, 1, IF Len(lines) < max_lines THEN Len(lines) ELSE max_lines)))

\* st_label of lines 179-183
StatusLabel(pct) == IF pct < LOW_QUALITY_PCT THEN "LOW_QUALITY" ELSE "OK"

\* note of lines 180-183
StatusNote(pct) ==
    IF pct < LOW_QUALITY_PCT
    THEN "Very low filled fields; likely RTL/extraction layout issues."
    ELSE "Parsed successfully"

\* f"{type(e).__name__}: {str(e)}" of the exception the statement raises: f.read()
\* ("read"), extract_text_from_pdf_bytes ("extract"), parse_contract ("parse"),
\* logs.append of the try block ("log"), debug_items.append of the try block
\* ("debug")
ErrorNote(fault) ==
    CASE fault = "read" -> "OSError: read failed"
      [] fault = "extract" -> "PDFSyntaxError: No /Root object"
      [] fault = "parse" -> "RecursionError: maximum recursion depth exceeded"
      [] fault \in {"log", "debug"} -> "MemoryError: "

\* the dict appended to logs
LogEntry(f, status, q, note) ==
    [file_name |-> f.name, status |-> status, filled_fields |-> q.filled,
     total_fields |-> q.total, quality_pct |-> q.pct, note |-> note]

\* lines 206-225: the except block, entered with the lists as b has them
Caught(b, f) ==
    [rows |-> Append(b.rows, EmptyRow),
     logs |-> Append(b.logs, LogEntry(f, "ERROR", quality_score(EmptyRow), ErrorNote(f.fault))),
     debug_items |-> Append(b.debug_items,
                            [file |-> f.name, raw_preview |-> "", normalized_preview |-> <<>>,
                             note |-> ErrorNote(f.fault)])]

\* lines 147-165: the branch of an empty or too small file.  The row is
\* appended, then the log entry, then the debug item; a statement that raises
\* leaves what was appended before it and enters the except block
Skipped(b, f) ==
    Let([b EXCEPT !.rows = Append(b.rows, EmptyRow)], LAMBDA withRow :
        IF f.fault = "log" THEN Caught(withRow, f)
        ELSE Let([withRow EXCEPT
                     !.logs = Append(b.logs, LogEntry(f, "SKIPPED", quality_score(EmptyRow),
                                                      "File seems empty/too small"))],
                 LAMBDA withLog :
                 IF f.fault = "debug" THEN Caught(withLog, f)
                 ELSE [withLog EXCEPT
                          !.debug_items =
                              Append(b.debug_items,
                                     [file |-> f.name, raw_preview |-> "",
                                      normalized_preview |-> <<>>,
                                      note |-> "Empty/too small"])]))

\* lines 173-204: the row of the parsed data and what is recorded of it.  The
\* row is appended, then the log entry, then, with enable_debug, the debug
\* item; a statement that raises leaves what was appended before it and enters
\* the except block
Recorded(b, f, normalized_text, row, q, debug) ==
    Let([b EXCEPT !.rows = Append(b.rows, row)], LAMBDA withRow :
        IF f.fault = "log" THEN Caught(withRow, f)
        ELSE Let([withRow EXCEPT
                     !.logs = Append(b.logs, LogEntry(f, StatusLabel(q.pct), q,
                                                      StatusNote(q.pct)))],
                 LAMBDA withLog :
                 IF ~debug THEN withLog
                 ELSE IF f.fault = "debug" THEN Caught(withLog, f)
                 ELSE [withLog EXCEPT
                          !.debug_items =
                              Append(b.debug_items,
                                     [file |-> f.name,
                                      raw_preview |-> "(raw not captured in this build)",
                                      normalized_preview |-> safe_snip(normalized_text, SNIP_LINES),
                                      note |-> q.pct])]))

\* row = {h: data.get(h, "") ... for h in HEADERS}
RowOf(data) == [h \in Range(HEADERS) |-> IF h \in DOMAIN data THEN data[h] ELSE <<>>]

\* lines 168-204: the branch of a file of at least 50 bytes
Parsed(b, f, debug) ==
    IF f.fault \in {"extract", "parse"} THEN Caught(b, f)
    ELSE Let(extract_text_from_pdf_bytes(f.pages), LAMBDA normalized_text :
             Let(RowOf(parse_contract(normalized_text)), LAMBDA row :
                 Recorded(b, f, normalized_text, row, quality_score(row), debug)))

\* lines 143-225: the body of the loop for the file f
ProcessOne(b, f, debug) ==
    IF f.fault = "read" THEN Caught(b, f)
    ELSE IF f.size < MIN_PDF_BYTES THEN Skipped(b, f)
    ELSE Parsed(b, f, debug)

(***************************************************************************)
(* SpecBatch: process_files over every batch of at most MaxFiles files of  *)
(* BATCH_FILES, one step for each pass of the loop and one for the return. *)
(***************************************************************************)

MaxFiles == 2

BATCH_FILES ==
    LET \* "a@b.co c@d.co\n%5\nName:A\nIban:1"
        head == <<97, 64, 98, 46, 99, 111, 32, 99, 64, 100, 46, 99, 111, 10, 37, 53, 10,
                  78, 97, 109, 101, 58, 65, 10, 73, 98, 97, 110, 58, 49>>
        \* "Gender:M\nAddress:R\nID Type:N": with head, 8 of the 40 fields
        eight == <<71, 101, 110, 100, 101, 114, 58, 77, 10, 65, 100, 100, 114, 101, 115, 115,
                   58, 82, 10, 73, 68, 32, 84, 121, 112, 101, 58, 78>>
        \* "Gender:M\nAddress:R": with head, 7 of the 40 fields
        seven == <<71, 101, 110, 100, 101, 114, 58, 77, 10, 65, 100, 100, 114, 101, 115, 115,
                   58, 82>>
        \* "Name:A"
        name == <<78, 97, 109, 101, 58, 65>>
        File(n, size, pages, fault) ==
            [name |-> n, size |-> size, pages |-> pages, fault |-> fault]
    IN  { File("empty.pdf", 0, <<>>, "none"),
          File("tiny.pdf", MIN_PDF_BYTES - 1, <<name>>, "none"),
          File("tiny-x.pdf", MIN_PDF_BYTES - 1, <<name>>, "extract"),
          File("empty-l.pdf", 0, <<>>, "log"),
          File("blank.pdf", MIN_PDF_BYTES, <<<<>>>>, "none"),
          File("eight.pdf", 4096, <<head, eight>>, "none"),
          File("seven.pdf", 4096, <<head, seven>>, "none"),
          File("seven-r.pdf", 4096, <<head, seven>>, "read"),
          File("eight-x.pdf", 4096, <<head, eight>>, "extract"),
          File("blank-p.pdf", MIN_PDF_BYTES, <<<<>>>>, "parse"),
          File("eight-l.pdf", 4096, <<head, eight>>, "log"),
          File("empty-d.pdf", 0, <<>>, "debug"),
          File("seven-d.pdf", 4096, <<head, seven>>, "debug") }

BatchInit ==
    /\ pc = "ready"
    /\ inp \in [enable_debug : BOOLEAN]
    /\ out = <<>>
    /\ passes = 0
    /\ AIIdle
    /\ files \in UNION {[1..n -> BATCH_FILES] : n \in 0..MaxFiles}
    /\ idx = 0
    /\ rows = <<>>
    /\ logs = <<>>
    /\ debug_items = <<>>

\* one pass of the loop of lines 139-227
ProcessFile ==
    /\ pc = "ready"
    /\ idx < Len(files)
    /\ idx' = idx + 1
    /\ Let(ProcessOne([rows |-> rows, logs |-> logs, debug_items |-> debug_items],
                       files[idx + 1], inp.enable_debug),
           LAMBDA b : /\ rows' = b.rows
                      /\ logs' = b.logs
                      /\ debug_items' = b.debug_items)
    /\ UNCHANGED <<pc, inp, out, passes, aiVars, files>>

\* lines 229-230: return rows, logs, debug_items
BatchReturn ==
    /\ pc = "ready"
    /\ idx = Len(files)
    /\ pc' = "done"
    /\ out' = [rows |-> rows, logs |-> logs, debug_items |-> debug_items]
    /\ UNCHANGED <<inp, passes, aiVars, batchVars>>

SpecBatch == BatchInit /\ [][ProcessFile \/ BatchReturn]_vars

\* C4: after each file there is one record and one log entry for every file
\* processed so far, the i-th of each belonging to the i-th file, and the
\* batch returns only when every file has been processed
C4_OneRecordAndLogPerFile ==
    /\ Len(rows) = idx
    /\ Len(logs) = idx
    /\ \A i \in 1..idx :
          /\ logs[i].file_name = files[i].name
          /\ i <= Len(rows) => quality_score(rows[i]).filled = logs[i].filled_fields
    /\ pc = "done" => idx = Len(files)

\* a failure occurred while the file was processed: its read raised, or the
\* statement that raises for it was reached
Failed(f) ==
    \/ f.fault \in {"read", "log"}
    \/ f.fault \in {"extract", "parse"} /\ f.size >= MIN_PDF_BYTES
    \/ f.fault = "debug" /\ (f.size < MIN_PDF_BYTES \/ inp.enable_debug)

\* the status of a document by the rule of the claim, from the document alone
DocumentStatus(f) ==
    IF Failed(f) THEN "ERROR"
    ELSE IF f.size < 50 THEN "SKIPPED"
    ELSE IF quality_score(parse_contract(extract_text_from_pdf_bytes(f.pages))).pct >= 200
         THEN "OK"
    ELSE "LOW_QUALITY"

\* C5: each pass of the loop adds exactly one log entry, for the file of the
\* pass, leaves the earlier entries as they are, and labels the file with the
\* one status its own bytes, failure and completeness percent call for
C5_StatusByDocument ==
    [][idx' = idx + 1 =>
          /\ Len(logs') = Len(logs) + 1
          /\ SubSeq(logs', 1, Len(logs)) = logs
          /\ logs'[Len(logs')].file_name = files[idx'].name
          /\ logs'[Len(logs')].status \in {"OK", "LOW_QUALITY", "SKIPPED", "ERROR"}
          /\ logs'[Len(logs')].status = DocumentStatus(files[idx'])]_vars

\* C5, the part the code keeps: the last log entry a pass of the loop adds is
\* for the file of the pass and has the status the claim gives the file, and
\* the entries of earlier passes stay as they are
C5_LastStatusByDocument ==
    [][idx' = idx + 1 =>
          /\ Len(logs') > Len(logs)
          /\ SubSeq(logs', 1, Len(logs)) = logs
          /\ logs'[Len(logs')].file_name = files[idx'].name
          /\ logs'[Len(logs')].status = DocumentStatus(files[idx'])]_vars

(***************************************************************************)
(* SpecMobile: normalize_mobile_from_line applied to one phone-label line  *)
(***************************************************************************)

MaxMobileRuns == 2

\* a phone-label line and the digit runs written on it, in order
MobileInputs ==
    LET pool == { D(<<9, 6, 6>>), D(<<0, 5, 0, 5, 6, 0, 6, 0, 6, 1>>),
                  D(<<9, 6, 6, 0, 5, 5, 0, 2, 6, 6, 1, 0, 1>>),
                  D(<<5, 0, 5, 6, 0, 6, 0, 6, 1>>), D(<<9, 6, 6, 0>>), D(<<5>>),
                  D(<<0, 5, 5, 0, 2, 6, 6, 1, 0, 1>>), D(<<9, 6>>),
                  D(<<1, 2, 3, 4, 5, 6, 7, 8, 9, 0>>), D(<<0, 0, 9, 6, 6>>) }
        runs == UNION {[1..n -> pool] : n \in 0..MaxMobileRuns}
        \* the runs after the label, each preceded by the separator sep
        Line(rs, sep) ==
            KEYWORD_MOBILE \o <<58>> \o Flatten([n \in 1..Len(rs) |-> sep \o rs[n]])
    IN  {[line |-> Line(rs, sep), runs |-> rs] : rs \in runs, sep \in {<<32>>, <<32, 45, 32>>}}
        \cup {[line |-> <<>>, runs |-> <<>>]}

MobileInit ==
    /\ pc = "ready" /\ inp \in MobileInputs /\ out = <<>> /\ passes = 0
    /\ AIIdle /\ BatchIdle

MobileCall ==
    /\ pc = "ready"
    /\ out' = normalize_mobile_from_line(inp.line)
    /\ pc' = "done"
    /\ UNCHANGED <<inp, passes, aiVars, batchVars>>

SpecMobile == MobileInit /\ [][MobileCall]_vars

\* the result the rule of the claim gives for the digit runs of a line
MobileByRule(runs) ==
    LET has966 == \E i \in 1..Len(runs) :
                      Len(runs[i]) >= 3 /\ SubSeq(runs[i], 1, 3) = D(<<9, 6, 6>>)
        locals == {i \in 1..Len(runs) :
                      \/ Len(runs[i]) = 10 /\ SubSeq(runs[i], 1, 2) = D(<<0, 5>>)
                      \/ Len(runs[i]) = 9 /\ runs[i][1] = 53}
        all == Flatten(runs)
    IN  IF has966 /\ locals # {}
        THEN LET g == runs[CHOOSE i \in locals : \A j \in locals : i <= j]
             IN  D(<<9, 6, 6>>) \o (IF Len(g) = 10 THEN Tail(g) ELSE g)
        ELSE IF Len(all) >= 4 /\ SubSeq(all, 1, 4) = D(<<9, 6, 6, 0>>)
        THEN D(<<9, 6, 6>>) \o SubSeq(all, 5, Len(all))
        ELSE all

\* C11: normalize_mobile_from_line returns digits only: "966" and the local
\* number without its leading zero when a run starts with "966" and a local
\* number (a 10-digit run "05..." or a 9-digit run "5...") is present,
\* otherwise all runs concatenated with a leading "9660" rewritten to "966";
\* '966 0505606061' gives '966505606061', '9660550266101' gives '966550266101'
C11_MobileCanonical ==
    pc = "done" =>
        /\ \A n \in 1..Len(out) : IsDigit(out[n])
        /\ out = MobileByRule(inp.runs)
        /\ inp.runs = <<D(<<9, 6, 6>>), D(<<0, 5, 0, 5, 6, 0, 6, 0, 6, 1>>)>>
              => out = D(<<9, 6, 6, 5, 0, 5, 6, 0, 6, 0, 6, 1>>)
        /\ inp.runs = <<D(<<9, 6, 6, 0, 5, 5, 0, 2, 6, 6, 1, 0, 1>>)>>
              => out = D(<<9, 6, 6, 5, 5, 0, 2, 6, 6, 1, 0, 1>>)

\* C11 witness: the line 'رقم الجوال: 966 0505606061' has given '966505606061'
C11_Witness ==
    /\ pc = "done"
    /\ inp.runs = <<D(<<9, 6, 6>>), D(<<0, 5, 0, 5, 6, 0, 6, 0, 6, 1>>)>>
    /\ out = D(<<9, 6, 6, 5, 0, 5, 6, 0, 6, 0, 6, 1>>)

(***************************************************************************)
(* SpecRtl: fix_rtl_value applied to one value                             *)
(***************************************************************************)

MaxRtlParts == 2

RtlInit ==
    /\ pc = "ready"
    /\ inp \in LET \* دقعلا  مق  Ali  a@b.co  2024  ١٢٣٤  ١٢  ،  blank
                    parts == { <<1583, 1602, 1593, 1604, 1575>>, <<1605, 1602>>,
                               <<65, 108, 105>>, <<97, 64, 98, 46, 99, 111>>,
                               D(<<2, 0, 2, 4>>), <<1633, 1634, 1635, 1636>>,
                               <<1633, 1634>>, <<1548>>, <<32>> }
                    seqs == UNION {[1..n -> parts] : n \in 0..MaxRtlParts}
                IN  {pad \o Flatten(ps) : ps \in seqs, pad \in {<<>>, <<32>>}}
    /\ out = <<>>
    /\ passes = 0
    /\ AIIdle
    /\ BatchIdle

RtlCall ==
    /\ pc = "ready"
    /\ out' = fix_rtl_value(inp)
    /\ pc' = "done"
    /\ UNCHANGED <<inp, passes, aiVars, batchVars>>

SpecRtl == RtlInit /\ [][RtlCall]_vars

\* a letter of the Arabic block U+0600..U+06FF (general category L)
IsArabicLetter(c) ==
    \/ c \in 1568..1610 \/ c \in 1646..1647 \/ c \in 1649..1747 \/ c = 1749
    \/ c \in 1765..1766 \/ c \in 1774..1775 \/ c \in 1786..1788 \/ c = 1791

\* C12: with v the value without its surrounding blanks, fix_rtl_value returns
\* v itself when v holds '@' or a Latin letter, whatever its Arabic letters,
\* and when v has fewer than 3 Arabic letters; it returns v reversed when v
\* has no '@', no Latin letter and at least 3 Arabic letters
C12_FlipOnlyArabic ==
    pc = "done" =>
        LET v == Strip(inp)
            latin == \E n \in 1..Len(v) : v[n] = 64 \/ IsLatin(v[n])
            letters == Cardinality({n \in 1..Len(v) : IsArabicLetter(v[n])})
        IN  /\ latin => out = v
            /\ (~latin /\ letters >= 3) => out = Reverse(v)
            /\ letters < 3 => out = v

\* C12, the part the code keeps: a value with '@' or a Latin letter comes
\* back in its own order, a value without them and with at least 3
\* characters of U+0600..U+06FF comes back reversed, any other value in its
\* own order; surrounding blanks are trimmed
C12_FlipByBlock ==
    pc = "done" =>
        LET v == Strip(inp)
            latin == \E n \in 1..Len(v) : v[n] = 64 \/ IsLatin(v[n])
            block == Cardinality({n \in 1..Len(v) : v[n] \in 1536..1791})
        IN  out = IF ~latin /\ block >= 3 THEN Reverse(v) ELSE v

(***************************************************************************)
(* SpecShort: parse_contract applied to a text that holds the sentences of *)
(* the short-number fields, one on a line                                  *)
(***************************************************************************)

MaxShortTokens == 7

\* the sentences of one or two of the three fields with a token in each:
\* the text, and the token written for each field
ShortInputs ==
    LET \* 09  03  90  7  120  0٣  ٠٩  05  00  007
        tokens == Take(<< D(<<0, 9>>), D(<<0, 3>>), D(<<9, 0>>), D(<<7>>), D(<<1, 2, 0>>),
                          <<48, 1635>>, <<1632, 1641>>, D(<<0, 5>>), D(<<0, 0>>),
                          D(<<0, 0, 7>>) >>, MaxShortTokens)
        ascii == {t \in tokens : \A n \in 1..Len(t) : IsAsciiDigit(t[n])}
        \* 'فترة تجربة مدتها <t> يوم'
        Trial(t) == <<1601, 1578, 1585, 1577, 32, 1578, 1580, 1585, 1576, 1577, 32, 1605,
                      1583, 1578, 1607, 1575, 32>> \o t \o <<32, 1610, 1608, 1605>>
        \* 'إجازة سنوية مدتها <t> يوم'
        Leave(t) == <<1573, 1580, 1575, 1586, 1577, 32, 1587, 1606, 1608, 1610, 1577, 32,
                      1605, 1583, 1578, 1607, 1575, 32>> \o t \o <<32, 1610, 1608, 1605>>
        \* '% <t>'
        Overtime(t) == <<37, 32>> \o t
        one == {[f |-> "TRIAL", token |-> t, line |-> Trial(t)] : t \in tokens}
               \cup {[f |-> "ANNUAL_LEAVE", token |-> t, line |-> Leave(t)] : t \in tokens}
               \cup {[f |-> "OVERTIME", token |-> t, line |-> Overtime(t)] : t \in ascii}
    IN  {[text |-> a.line, tokens |-> (a.f :> a.token)] : a \in one}
        \cup {[text |-> p[1].line \o <<10>> \o p[2].line,
               tokens |-> (p[1].f :> p[1].token) @@ (p[2].f :> p[2].token)] :
                 p \in {q \in one \X one : q[1].f # q[2].f}}

ShortInit ==
    /\ pc = "ready" /\ inp \in ShortInputs /\ out = EmptyRow /\ passes = 0
    /\ AIIdle /\ BatchIdle

ShortCall ==
    /\ pc = "ready"
    /\ out' = parse_contract(inp.text)
    /\ pc' = "done"
    /\ UNCHANGED <<inp, passes, aiVars, batchVars>>

SpecShort == ShortInit /\ [][ShortCall]_vars

\* C13: the trial period, annual leave and overtime fields hold the captured
\* token reversed when it is '0' (U+0030) followed by one digit ('09' gives
\* '90', '03' gives '30', '05' gives '50'), and the captured token as it is
\* otherwise
C13_ShortNumberRepair ==
    pc = "done" =>
        \A f \in {"TRIAL", "ANNUAL_LEAVE", "OVERTIME"} :
            IF f \in DOMAIN inp.tokens
            THEN LET t == inp.tokens[f]
                 IN  /\ (Len(t) = 2 /\ t[1] = 48) => out[K[f]] = <<t[2], 48>>
                     /\ ~(Len(t) = 2 /\ t[1] = 48) => out[K[f]] = t
                     /\ t = D(<<0, 9>>) => out[K[f]] = D(<<9, 0>>)
                     /\ t = D(<<0, 3>>) => out[K[f]] = D(<<3, 0>>)
            ELSE out[K[f]] = <<>>

\* C13 witness: a text with the trial token '09' and the leave token '120'
\* has been parsed into '90' and '120'
C13_Witness ==
    /\ pc = "done"
    /\ DOMAIN inp.tokens = {"TRIAL", "ANNUAL_LEAVE"}
    /\ inp.tokens["TRIAL"] = D(<<0, 9>>) /\ out[K.TRIAL] = D(<<9, 0>>)
    /\ inp.tokens["ANNUAL_LEAVE"] = D(<<1, 2, 0>>) /\ out[K.ANNUAL_LEAVE] = D(<<1, 2, 0>>)

(***************************************************************************)
(* SpecLookup: get_bi applied to a text and a list of aliases              *)
(***************************************************************************)

MaxLookupLines == 2

LookupInit ==
    /\ pc = "ready"
    /\ inp \in LET \* 'Gender: M'  'Gender:'  'الجنس: ذكر'  'hello world'
                    \* 'Gender :  F  '  'Name: A'
                    lines == { <<71, 101, 110, 100, 101, 114, 58, 32, 77>>,
                               <<71, 101, 110, 100, 101, 114, 58>>,
                               <<1575, 1604, 1580, 1606, 1587, 58, 32, 1584, 1603, 1585>>,
                               <<104, 101, 108, 108, 111, 32, 119, 111, 114, 108, 100>>,
                               <<71, 101, 110, 100, 101, 114, 32, 58, 32, 32, 70, 32, 32>>,
                               <<78, 97, 109, 101, 58, 32, 65>> }
                    ar == <<1575, 1604, 1580, 1606, 1587>>
                    en == <<71, 101, 110, 100, 101, 114>>
                IN  [text : TextsOf(lines, MaxLookupLines) \cup {<<>>},
                     labels : {<<ar, en>>, <<en, ar>>, <<<<78, 97, 109, 101>>>>, <<>>}]
    /\ out = <<>>
    /\ passes = 0
    /\ AIIdle
    /\ BatchIdle

LookupCall ==
    /\ pc = "ready"
    /\ out' = get_bi(inp.text, inp.labels)
    /\ pc' = "done"
    /\ UNCHANGED <<inp, passes, aiVars, batchVars>>

SpecLookup == LookupInit /\ [][LookupCall]_vars

\* the value of an alias by the rule of the claim: the trimmed text after
\* 'alias:' up to the end of the same line, for the first line where that
\* text is not empty; "" if there is no such line
ValueOnItsLine(text, alias) ==
    LET lines == SplitLines(text)
        found == {n \in 1..Len(lines) : get_value_after_label(lines[n], alias) # <<>>}
    IN  IF found = {} THEN <<>>
        ELSE get_value_after_label(lines[CHOOSE n \in found : \A m \in found : n <= m], alias)

\* C16: get_bi returns the value of the first alias, in list order, that has
\* a non-empty value on its own line, and "" when no alias has one
C16_ValueOnSameLine ==
    pc = "done" =>
        LET having == {i \in 1..Len(inp.labels) :
                          ValueOnItsLine(inp.text, inp.labels[i]) # <<>>}
        IN  out = IF having = {} THEN <<>>
                  ELSE ValueOnItsLine(inp.text,
                           inp.labels[CHOOSE i \in having : \A j \in having : i <= j])

\* C16, the part the code keeps: when every line that holds an alias has a
\* value after its colon, get_bi returns the value of the first alias in
\* list order that has one, trimmed
C16_FirstAliasInOrder ==
    (pc = "done" /\ \A n \in 1..Len(SplitLines(inp.text)) :
                        SplitLines(inp.text)[n] # <<71, 101, 110, 100, 101, 114, 58>>) =>
        LET having == {i \in 1..Len(inp.labels) :
                          ValueOnItsLine(inp.text, inp.labels[i]) # <<>>}
        IN  out = IF having = {} THEN <<>>
                  ELSE ValueOnItsLine(inp.text,
                           inp.labels[CHOOSE i \in having : \A j \in having : i <= j])

====
